---- MODULE Spec2Model ----
(***************************************************************************)
(* Verification model of the PR review metrics collector                   *)
(* (scripts/collect-metrics.js) and of the parts of the dashboard that     *)
(* share its computations.                                                 *)
(*                                                                         *)
(* Timestamps are integers counting slots (SlotsPerHour slots per hour) of *)
(* local wall-clock time since the local midnight of a Monday, so that the *)
(* day of week and the hour boundaries are those the collector sees with   *)
(* Date#getDay and Date#setHours.  Durations ("hours") are kept in slots.  *)
(***************************************************************************)
EXTENDS Integers, Sequences, FiniteSets, TLC

VARIABLES
  \* working-hours calculator: the two timestamps, the result, whether it ran
  whStart, whEnd, whResult, whDone,
  \* enrichment of one PR: the raw PR, what the API returned, the record
  \* processPR resolved with, whether it ran; the reviewer summary of that
  \* record alone, whether it was computed
  rrPr, rrFetched, rrResult, rrDone, rrSummary, rrSummarized,
  \* aggregation of one batch: prDetails, the reviewerStats accumulators after
  \* the loops, the three summaries, whether the aggregators ran
  aggBatch, aggReviewerStats, aggReviewer, aggAuthor, aggTeam, aggDone,
  \* the collector run: allPRs, which of them the API fails for, the position
  \* of main, and of processPRsWithConcurrency its index, pool, promise and
  \* results, the state of each processPR promise; the batch the aggregators
  \* were given, the team summary they gave, the details written to the file
  allPRs, failing, pc, index, pool, promise, results, status,
  aggregated, teamSummary, details

whVars == <<whStart, whEnd, whResult, whDone>>
rrVars == <<rrPr, rrFetched, rrResult, rrDone, rrSummary, rrSummarized>>

aggVars == <<aggBatch, aggReviewerStats, aggReviewer, aggAuthor, aggTeam, aggDone>>

runVars == <<allPRs, failing, pc, index, pool, promise, results, status,
             aggregated, teamSummary, details>>

\* state of the further components
VARIABLES
  \* change classifier: the files of a PR, the result, whether it ran
  clFiles, clResult, clDone,
  \* churn analyzer: the commits argument, a further commit, the metrics, reWorkAdditions
  \* without and with the further commit appended, whether it ran
  chCommits, chNext, chResult, chRework, chReworkAfter, chDone,
  \* quality score: the developer figures, the team average passed along, the sub-scores and
  \* the score, whether it ran
  qsDev, qsTeamAvg, qsScores, qsDone,
  \* weighted average: the rows, the average as a fraction, whether it ran
  waItems, waResult, waDone,
  \* CSV writer: the summary rows, the text produced, whether it ran
  csvSummary, csvOut, csvDone,
  \* command line run: the parsed arguments, the position of main, the repositories still to
  \* list, the number of PRs collected, the exit code of the process
  mainArgs, mainPc, mainRepos, mainFound, mainExit,
  \* dashboard page: the loaded month, the keys checked in the All PRs table, the filtered
  \* data handed to the summary cards and the other tabs
  dashData, dashExcludedPRs, dashFiltered,
  \* one ghApiWithRetry call: the endpoint and paginate flag, the loop counter, the position
  \* in the loop, the outcome of each attempt so far, the delays slept, the value returned
  \* and the error thrown
  ghEndpoint, ghPaginate, ghAttempt, ghPc, ghLog, ghWaits, ghResult, ghThrown,
  \* dashboard month loading: the selected month, the month whose response is in data, the
  \* loading flag, the error, the number of /api/data fetches in flight per month
  homeSelected, homeData, homeLoading, homeError, homePending

clVars == <<clFiles, clResult, clDone>>
chVars == <<chCommits, chNext, chResult, chRework, chReworkAfter, chDone>>
qsVars == <<qsDev, qsTeamAvg, qsScores, qsDone>>
waVars == <<waItems, waResult, waDone>>
csvVars == <<csvSummary, csvOut, csvDone>>
mainVars == <<mainArgs, mainPc, mainRepos, mainFound, mainExit>>
dashVars == <<dashData, dashExcludedPRs, dashFiltered>>
ghVars == <<ghEndpoint, ghPaginate, ghAttempt, ghPc, ghLog, ghWaits, ghResult, ghThrown>>
homeVars == <<homeSelected, homeData, homeLoading, homeError, homePending>>

extVars == <<clVars, chVars, qsVars, waVars, csvVars, mainVars, dashVars, ghVars, homeVars>>

vars == <<whVars, rrVars, aggVars, runVars, extVars>>

----------------------------------------------------------------------------
(* Bounds of the model *)

SlotsPerHour == 2
MaxDays == 8
MaxReviews == 2
MaxConversation == 2
MaxBatch == 3
MaxPRs == 7
MaxFailures == 1
MaxFiles == 2
MaxCommits == 2
MaxItems == 2
MaxRows == 2
MaxFound == 2
MaxDetails == 2
MaxPending == 3

----------------------------------------------------------------------------
(* Generic helpers *)

SeqsUpTo(S, n) == UNION {[1..k -> S] : k \in 0..n}

Max(a, b) == IF a >= b THEN a ELSE b
Min(a, b) == IF a <= b THEN a ELSE b

----------------------------------------------------------------------------
(* Working-Hours Calculator: calculateWorkingHours *)

HoursPerDay == 24
EveningStartHour == 18
MorningEndHour == 10

SlotsPerDay == HoursPerDay * SlotsPerHour
Horizon == MaxDays * SlotsPerDay

\* a walk that starts at the start instant instead of its midnight
StartOfDay_noReset(t) == t

\* currentDay.setHours(0, 0, 0, 0): local midnight of the day holding t
StartOfDay(t) == (t \div SlotsPerDay) * SlotsPerDay

\* Date#getDay of a local midnight: 0 = Sunday .. 6 = Saturday (slot 0 is a Monday)
getDay(t) == ((t \div SlotsPerDay) + 1) % 7

\* the timestamp of hour `hour` of day `day` (day 0 is a Monday)
At(day, hour) == day * SlotsPerDay + hour * SlotsPerHour

overlap_unchecked(start, end, a, b) == Min(end, b) - Max(start, a)

\* the length of [Math.max(start, a), Math.min(end, b)] when it is not empty
overlap(start, end, a, b) ==
  LET overlapStart == Max(start, a)
      overlapEnd == Min(end, b)
  IN IF overlapEnd > overlapStart THEN overlapEnd - overlapStart ELSE 0

isWeekend_sundayOnly(dayOfWeek) == dayOfWeek = 0

\* if (dayOfWeek === 0 || dayOfWeek === 6)
isWeekend(dayOfWeek) == dayOfWeek = 0 \/ dayOfWeek = 6

dayRemoval_noMorning(currentDay, start, end) ==
  LET dayEnd == currentDay + SlotsPerDay
  IN IF isWeekend(getDay(currentDay))
     THEN overlap(start, end, currentDay, dayEnd)
     ELSE overlap(start, end, currentDay + EveningStartHour * SlotsPerHour, dayEnd)

\* the hours one iteration of the day-by-day walk adds to hoursToRemove
dayRemoval(currentDay, start, end) ==
  LET dayOfWeek == getDay(currentDay)
      dayStart == currentDay
      dayEnd == currentDay + SlotsPerDay
  IN IF isWeekend(dayOfWeek)
     THEN overlap(start, end, dayStart, dayEnd)
     ELSE overlap(start, end, currentDay + EveningStartHour * SlotsPerHour, dayEnd)
          + overlap(start, end, dayStart, currentDay + MorningEndHour * SlotsPerHour)

\* while (currentDay < end) { ...; currentDay.setDate(currentDay.getDate() + 1) }
RECURSIVE hoursToRemove(_, _, _)
hoursToRemove(currentDay, start, end) ==
  IF currentDay < end
  THEN dayRemoval(currentDay, start, end)
       + hoursToRemove(currentDay + SlotsPerDay, start, end)
  ELSE 0

calculateWorkingHours_unguarded(start, end) ==
  (end - start) - hoursToRemove(StartOfDay(start), start, end)

calculateWorkingHours(start, end) ==
  IF end <= start
  THEN 0
  ELSE Max(0, (end - start) - hoursToRemove(StartOfDay(start), start, end))

----------------------------------------------------------------------------
(* JavaScript values.  null and undefined/NaN are integers outside the     *)
(* range of every timestamp, count, line total and duration of the model.  *)
(* A number rendered with toFixed(k) is kept as the integer number of      *)
(* 10^-k units (round half up on the exact quotient).                      *)

Null == -1
NaN == -2

\* the `error` field of a PR record that has none
NoError == "<absent>"

\* JavaScript truthiness of a string or absent field: `if (pr.error)`
TruthyStr(v) == v # NoError /\ v # ""

\* JavaScript truthiness of a number or null: `x ? a : b`, `x || d`
TruthyNum(v) == v # Null /\ v # NaN /\ v # 0

\* JavaScript truthiness of a timestamp string or null: `if (pr.firstResponseAt)`
TruthyTime(v) == v # Null /\ v # NaN

\* a + b on numbers, undefined + undefined being NaN
plus(a, b) == IF a = NaN \/ b = NaN THEN NaN ELSE a + b

RECURSIVE sum(_)
sum(arr) == IF arr = <<>> THEN 0 ELSE plus(Head(arr), sum(Tail(arr)))

\* Math.round(n / d) and (n / d).toFixed(k) scaled, for n >= 0 and d > 0
RoundDiv(n, d) == IF n = NaN THEN NaN ELSE (2 * n + d) \div (2 * d)

RECURSIVE insertAsc(_, _)
insertAsc(x, sorted) ==
  IF sorted = <<>> THEN <<x>>
  ELSE IF x < Head(sorted) THEN <<x>> \o sorted
  ELSE <<Head(sorted)>> \o insertAsc(x, Tail(sorted))

\* [...arr].sort((a, b) => a - b)
RECURSIVE sortAsc(_)
sortAsc(arr) ==
  IF arr = <<>> THEN <<>>
  ELSE insertAsc(arr[Len(arr)], sortAsc(SubSeq(arr, 1, Len(arr) - 1)))

\* arr.map(f) and arr.filter(p)
MapSeq(arr, f(_)) == [i \in 1..Len(arr) |-> f(arr[i])]

FilterSeq(arr, p(_)) == SelectSeq(arr, p)

countIf(arr, p(_)) == Len(SelectSeq(arr, p))

\* the distinct values of arr in the order of their first occurrence
\* (the iteration order of a Map or of an object's keys)
RECURSIVE firstOccurrences(_)
firstOccurrences(arr) ==
  IF arr = <<>> THEN <<>>
  ELSE LET init == firstOccurrences(SubSeq(arr, 1, Len(arr) - 1))
           last == arr[Len(arr)]
       IN IF \E i \in 1..Len(init) : init[i] = last THEN init ELSE Append(init, last)

\* arr.sort((a, b) => b.key - a.key) on [key, value] pairs: stable, descending
RECURSIVE insertDesc(_, _)
insertDesc(x, sorted) ==
  IF sorted = <<>> THEN <<x>>
  ELSE IF x.key > sorted[Len(sorted)].key
       THEN Append(insertDesc(x, SubSeq(sorted, 1, Len(sorted) - 1)), sorted[Len(sorted)])
       ELSE Append(sorted, x)

RECURSIVE sortDescPairs(_)
sortDescPairs(pairs) ==
  IF pairs = <<>> THEN <<>>
  ELSE insertDesc(pairs[Len(pairs)], sortDescPairs(SubSeq(pairs, 1, Len(pairs) - 1)))

\* summary.sort((a, b) => b[field] - a[field])
sortDesc(arr, field) ==
  LET sorted == sortDescPairs([i \in 1..Len(arr) |-> [key |-> arr[i][field], value |-> arr[i]]])
  IN [i \in 1..Len(arr) |-> sorted[i].value]

----------------------------------------------------------------------------
(* Change Classifier: isTestFile, classifyFileChanges.  A file name or a    *)
(* pattern is the sequence of its characters.                               *)

\* config.testFilePatterns
testFilePatterns ==
  << <<"*", ".", "t", "e", "s", "t", ".", "*">>,
     <<"*", ".", "s", "p", "e", "c", ".", "*">>,
     <<"_", "_", "t", "e", "s", "t", "s", "_", "_", "/">>,
     <<"_", "_", "m", "o", "c", "k", "s", "_", "_", "/">>,
     <<"e", "2", "e", "/">>,
     <<"t", "e", "s", "t", "s", "/">>,
     <<"t", "e", "s", "t", "/">>,
     <<"*", ".", "s", "t", "o", "r", "i", "e", "s", ".", "*">>,
     <<"i", "n", "t", "e", "g", "r", "a", "t", "i", "o", "n", "/">>,
     <<"f", "i", "x", "t", "u", "r", "e", "s", "/">>,
     <<".", "t", "e", "s", "t", "/">>,
     <<".", "s", "p", "e", "c", "/">> >>

\* String#includes
includes(str, part) ==
  \E i \in 0..(Len(str) - Len(part)) : SubSeq(str, i + 1, i + Len(part)) = part

\* config.testFilePatterns.some(pattern => filename.includes(pattern))
isTestFile(filename) ==
  \E k \in 1..Len(testFilePatterns) : includes(filename, testFilePatterns[k])

\* a classifier whose else branch is taken for every file
classifyFileChanges_everyFileProd(files) ==
  LET tests == FilterSeq(files, LAMBDA f : isTestFile(f.filename))
  IN [totalAdditions |-> sum(MapSeq(files, LAMBDA f : f.additions)),
      totalDeletions |-> sum(MapSeq(files, LAMBDA f : f.deletions)),
      prodAdditions |-> sum(MapSeq(files, LAMBDA f : f.additions)),
      prodDeletions |-> sum(MapSeq(files, LAMBDA f : f.deletions)),
      testAdditions |-> sum(MapSeq(tests, LAMBDA f : f.additions)),
      testDeletions |-> sum(MapSeq(tests, LAMBDA f : f.deletions)),
      filesChanged |-> Len(files),
      testFilesChanged |-> Len(tests),
      prodFilesChanged |-> Len(files)]

classifyFileChanges(files) ==
  LET tests == FilterSeq(files, LAMBDA f : isTestFile(f.filename))
      prods == FilterSeq(files, LAMBDA f : ~isTestFile(f.filename))
  IN [totalAdditions |-> sum(MapSeq(files, LAMBDA f : f.additions)),
      totalDeletions |-> sum(MapSeq(files, LAMBDA f : f.deletions)),
      prodAdditions |-> sum(MapSeq(prods, LAMBDA f : f.additions)),
      prodDeletions |-> sum(MapSeq(prods, LAMBDA f : f.deletions)),
      testAdditions |-> sum(MapSeq(tests, LAMBDA f : f.additions)),
      testDeletions |-> sum(MapSeq(tests, LAMBDA f : f.deletions)),
      filesChanged |-> Len(files),
      testFilesChanged |-> Len(tests),
      prodFilesChanged |-> Len(prods)]

----------------------------------------------------------------------------
(* Churn Analyzer: calculateChurnMetrics *)

\* the file entries of all commits in visiting order, each with its commit index
RECURSIVE commitEntries(_, _)
commitEntries(commits, idx) ==
  IF commits = <<>> THEN <<>>
  ELSE [i \in 1..Len(Head(commits).files) |->
          [idx |-> idx, file |-> Head(commits).files[i]]]
       \o commitEntries(Tail(commits), idx + 1)

\* the loop without the re-work branch
RECURSIVE churnWalk_noRework(_, _, _)
churnWalk_noRework(entries, seen, acc) ==
  IF entries = <<>> THEN [acc EXCEPT !.seen = seen]
  ELSE LET e == Head(entries)
           name == e.file.filename
           before == IF name \in DOMAIN seen THEN seen[name] ELSE {}
           seen2 == [n \in DOMAIN seen \cup {name} |->
                       IF n = name THEN before \cup {e.idx} ELSE seen[n]]
       IN churnWalk_noRework(Tail(entries), seen2,
                             [acc EXCEPT !.totalAdditions = @ + e.file.additions])

\* the loop of lines 194-209 over the entries; seen is fileSeenInCommit
RECURSIVE churnWalk(_, _, _)
churnWalk(entries, seen, acc) ==
  IF entries = <<>> THEN [acc EXCEPT !.seen = seen]
  ELSE LET e == Head(entries)
           name == e.file.filename
           before == IF name \in DOMAIN seen THEN seen[name] ELSE {}
           seen2 == [n \in DOMAIN seen \cup {name} |->
                       IF n = name THEN before \cup {e.idx} ELSE seen[n]]
       IN churnWalk(Tail(entries), seen2,
                    [acc EXCEPT !.totalAdditions = @ + e.file.additions,
                                !.reWorkAdditions =
                                   IF before # {} THEN @ + e.file.additions ELSE @])

EmptyMap == [n \in {} |-> {}]

\* totalAdditions, reWorkAdditions and fileSeenInCommit after the loop
churnTotals(commits) ==
  churnWalk(commitEntries(commits, 0), EmptyMap,
            [totalAdditions |-> 0, reWorkAdditions |-> 0, seen |-> EmptyMap])

\* the commits argument is an array or undefined
Undefined == [defined |-> FALSE, items |-> <<>>]
Array(items) == [defined |-> TRUE, items |-> items]

\* the metrics without the early return of lines 186-188
calculateChurnMetrics_noEarlyReturn(commits) ==
  LET t == churnTotals(commits.items)
  IN [churnPercentage |->
        IF t.totalAdditions > 0
        THEN RoundDiv(1000 * t.reWorkAdditions, t.totalAdditions) ELSE 0,
      fileChurnCount |->
        Cardinality({n \in DOMAIN t.seen : Cardinality(t.seen[n]) > 1})]

\* churnPercentage is kept in tenths of a percent: (x * 100).toFixed(1)
calculateChurnMetrics(commits) ==
  IF ~commits.defined \/ Len(commits.items) <= 1
  THEN [churnPercentage |-> 0, fileChurnCount |-> 0]
  ELSE LET t == churnTotals(commits.items)
       IN [churnPercentage |->
             IF t.totalAdditions > 0
             THEN RoundDiv(1000 * t.reWorkAdditions, t.totalAdditions) ELSE 0,
           fileChurnCount |->
             Cardinality({n \in DOMAIN t.seen : Cardinality(t.seen[n]) > 1})]

----------------------------------------------------------------------------
(* Review Activity Reducer and enrichment of one PR: processPR.             *)
(* `pr` is the raw PR record (title and url are carried along unread and    *)
(* are left out); `fetched` is what the API calls of processPR return: for  *)
(* the files, reviews and timeline calls an error message or NoError, for   *)
(* the calls whose failure is caught an ok flag.  A review body is the      *)
(* sequence of its characters.                                              *)

\* comment.user?.login of a comment without a user
NoLogin == ""

Whitespace == {" "}

\* String#trim
RECURSIVE trimStart(_)
trimStart(str) ==
  IF str # <<>> /\ Head(str) \in Whitespace THEN trimStart(Tail(str)) ELSE str

RECURSIVE trimEnd(_)
trimEnd(str) ==
  IF str # <<>> /\ str[Len(str)] \in Whitespace
  THEN trimEnd(SubSeq(str, 1, Len(str) - 1)) ELSE str

trim(str) == trimEnd(trimStart(str))

\* prConversationComments: [] when the call failed (lines 316-324)
conversationCommentsOf(fetched) ==
  IF fetched.conversationOk THEN fetched.conversationComments ELSE <<>>

\* userConversationCommentTimestamps.get(user) || []   (lines 327-336)
conversationTimestampsOf(fetched, user) ==
  MapSeq(FilterSeq(conversationCommentsOf(fetched),
                   LAMBDA c : c.user # NoLogin /\ c.user = user),
         LAMBDA c : c.created_at)

\* the keys of userConversationCommentTimestamps in Map iteration order
conversationUsersOf(fetched) ==
  firstOccurrences(MapSeq(FilterSeq(conversationCommentsOf(fetched),
                                    LAMBDA c : c.user # NoLogin),
                          LAMBDA c : c.user))

\* inlineComments of one review: [] when the call failed (lines 352-359)
inlineCommentsOf(review) == IF review.inlineOk THEN review.inlineComments ELSE <<>>

\* reviewerActivityTimestamps of one review, before it is sorted (lines 365-381)
reviewerActivityTimestamps(fetched, review) ==
  (IF TruthyTime(review.submitted_at) THEN <<review.submitted_at>> ELSE <<>>)
  \o FilterSeq(inlineCommentsOf(review), LAMBDA t : TruthyTime(t))
  \o conversationTimestampsOf(fetched, review.user)

\* the first timestamp pushed, without the sort
earliest_unsorted(timestamps) == timestamps[1]

\* timestamps.sort((a, b) => new Date(a) - new Date(b))[0]
earliest(timestamps) == sortAsc(timestamps)[1]

\* an entry whose body test leaves out the trim
processReview_bodyUntrimmed(fetched, review) ==
  LET activity == reviewerActivityTimestamps(fetched, review)
      conversationTimestamps == conversationTimestampsOf(fetched, review.user)
  IN [reviewer |-> review.user,
      state |-> review.state,
      submittedAt |-> review.submitted_at,
      firstActivityAt |-> IF Len(activity) > 0 THEN earliest(activity)
                          ELSE review.submitted_at,
      hasComments |-> \/ Len(review.body) > 0
                      \/ Len(inlineCommentsOf(review)) > 0
                      \/ Len(conversationTimestamps) > 0,
      inlineCommentCount |-> Len(inlineCommentsOf(review)),
      conversationCommentCount |-> Len(conversationTimestamps),
      body |-> review.body]

\* one entry of processedReviews (lines 383-408)
processReview(fetched, review) ==
  LET activity == reviewerActivityTimestamps(fetched, review)
      conversationTimestamps == conversationTimestampsOf(fetched, review.user)
      hasReviewBodyComment == Len(trim(review.body)) > 0
      hasInlineComments == Len(inlineCommentsOf(review)) > 0
      hasConversationComments == Len(conversationTimestamps) > 0
  IN [reviewer |-> review.user,
      state |-> review.state,
      submittedAt |-> review.submitted_at,
      firstActivityAt |-> IF Len(activity) > 0 THEN earliest(activity)
                          ELSE review.submitted_at,
      hasComments |-> hasReviewBodyComment \/ hasInlineComments \/ hasConversationComments,
      inlineCommentCount |-> Len(inlineCommentsOf(review)),
      conversationCommentCount |-> Len(conversationTimestamps),
      body |-> review.body]

\* concat of the sequences of a sequence
RECURSIVE flatten(_)
flatten(seqs) == IF seqs = <<>> THEN <<>> ELSE Head(seqs) \o flatten(Tail(seqs))

countsAsResponse_anyone(user, author) == TRUE

\* `user !== pr.author` (line 343), `reviewer !== pr.author` (line 389)
countsAsResponse(user, author) == user # author

\* allResponseTimestamps after the two loops (lines 339-346 and 388-391)
allResponseTimestamps(pr, fetched) ==
  flatten(MapSeq(FilterSeq(conversationUsersOf(fetched),
                           LAMBDA u : countsAsResponse(u, pr.author)),
                 LAMBDA u : conversationTimestampsOf(fetched, u)))
  \o flatten(MapSeq(FilterSeq(fetched.reviews,
                              LAMBDA r : countsAsResponse(r.user, pr.author)),
                    LAMBDA r : sortAsc(reviewerActivityTimestamps(fetched, r))))

\* lines 412-414
firstResponseAtOf(pr, fetched) ==
  LET all == allResponseTimestamps(pr, fetched)
  IN IF Len(all) > 0 THEN earliest(all) ELSE Null

\* the message of the error thrown inside the try block of processPR, NoError
\* when the files, reviews and timeline calls all succeed
thrownError(fetched) ==
  IF fetched.filesError # NoError THEN fetched.filesError
  ELSE IF fetched.reviewsError # NoError THEN fetched.reviewsError
  ELSE fetched.timelineError

\* the value processPR resolves with (lines 423-442).  The metric fields of
\* the error record do not exist: reading them gives undefined.
processPR(pr, fetched) ==
  IF thrownError(fetched) # NoError
  THEN [repo |-> pr.repo, number |-> pr.number, author |-> pr.author,
        createdAt |-> pr.createdAt, mergedAt |-> pr.mergedAt,
        error |-> thrownError(fetched),
        iterationCount |-> 0,
        reviews |-> <<>>,
        totalAdditions |-> NaN, totalDeletions |-> NaN,
        prodAdditions |-> NaN, prodDeletions |-> NaN,
        testAdditions |-> NaN, testDeletions |-> NaN,
        filesChanged |-> NaN, testFilesChanged |-> NaN, prodFilesChanged |-> NaN,
        firstResponseAt |-> NaN,
        commitCount |-> NaN, churnPercentage |-> NaN, fileChurnCount |-> NaN]
  ELSE LET fileMetrics == classifyFileChanges(fetched.files)
           processedReviews == MapSeq(fetched.reviews, LAMBDA r : processReview(fetched, r))
           churnMetrics == calculateChurnMetrics(Array(fetched.commits))
       IN [repo |-> pr.repo, number |-> pr.number, author |-> pr.author,
           createdAt |-> pr.createdAt, mergedAt |-> pr.mergedAt,
           error |-> NoError,
           iterationCount |-> Len(processedReviews),
           reviews |-> processedReviews,
           totalAdditions |-> fileMetrics.totalAdditions,
           totalDeletions |-> fileMetrics.totalDeletions,
           prodAdditions |-> fileMetrics.prodAdditions,
           prodDeletions |-> fileMetrics.prodDeletions,
           testAdditions |-> fileMetrics.testAdditions,
           testDeletions |-> fileMetrics.testDeletions,
           filesChanged |-> fileMetrics.filesChanged,
           testFilesChanged |-> fileMetrics.testFilesChanged,
           prodFilesChanged |-> fileMetrics.prodFilesChanged,
           firstResponseAt |-> firstResponseAtOf(pr, fetched),
           commitCount |-> IF Len(fetched.commits) # 0 THEN Len(fetched.commits) ELSE 1,
           churnPercentage |-> churnMetrics.churnPercentage,
           fileChurnCount |-> churnMetrics.fileChurnCount]

----------------------------------------------------------------------------
(* Reviewer aggregation: calculateReviewerSummary *)

skipsPR_never(pr) == FALSE

\* if (pr.error) continue
skipsPR(pr) == TruthyStr(pr.error)

\* the (pr, review) pairs visited by the two nested loops, in order
RECURSIVE reviewVisits(_)
reviewVisits(prDetails) ==
  IF prDetails = <<>> THEN <<>>
  ELSE LET pr == Head(prDetails)
       IN (IF skipsPR(pr) THEN <<>>
           ELSE [i \in 1..Len(pr.reviews) |-> [pr |-> pr, review |-> pr.reviews[i]]])
          \o reviewVisits(Tail(prDetails))

\* the key of stats.prsReviewed: stats.prsReviewed.has(pr.number)
prKey(pr) == pr.number

\* the visits of one reviewer at which `!stats.prsReviewed.has(pr.number)` holds
RECURSIVE firstVisits(_, _)
firstVisits(visits, seen) ==
  IF visits = <<>> THEN <<>>
  ELSE LET pr == Head(visits).pr
       IN IF prKey(pr) \in seen
          THEN firstVisits(Tail(visits), seen)
          ELSE <<pr>> \o firstVisits(Tail(visits), seen \cup {prKey(pr)})

\* stats.prsByRepo as the list of its keys, in insertion order, with counts
prsByRepoOf(prs) ==
  LET repos == firstOccurrences([i \in 1..Len(prs) |-> prs[i].repo])
  IN [k \in 1..Len(repos) |->
        [repo |-> repos[k],
         count |-> Cardinality({i \in 1..Len(prs) : prs[i].repo = repos[k]})]]

\* the accumulator of one reviewer after the loops (lines 476-543)
reviewerStatsOf(prDetails, reviewer) ==
  LET mine == FilterSeq(reviewVisits(prDetails), LAMBDA v : v.review.reviewer = reviewer)
      timed == FilterSeq(mine, LAMBDA v : TruthyTime(v.review.firstActivityAt)
                                           /\ TruthyTime(v.pr.createdAt))
      sampled == firstVisits(mine, {})
  IN [reviewer |-> reviewer,
      totalReviews |-> Len(mine),
      approvals |-> countIf(mine, LAMBDA v : v.review.state = "APPROVED"),
      changesRequested |-> countIf(mine, LAMBDA v : v.review.state = "CHANGES_REQUESTED"),
      commentOnlyReviews |-> countIf(mine, LAMBDA v : v.review.state = "COMMENTED"),
      noCommentApprovals |-> countIf(mine, LAMBDA v : v.review.state = "APPROVED"
                                                       /\ ~v.review.hasComments),
      totalInlineComments |-> sum(MapSeq(mine, LAMBDA v : v.review.inlineCommentCount)),
      totalConversationComments |->
        sum(MapSeq(mine, LAMBDA v : v.review.conversationCommentCount)),
      responseTimes |->
        FilterSeq(MapSeq(timed, LAMBDA v :
                    calculateWorkingHours(v.pr.createdAt, v.review.firstActivityAt)),
                  LAMBDA h : h >= 0),
      prSizesReviewed |-> MapSeq(sampled, LAMBDA p : plus(p.totalAdditions, p.totalDeletions)),
      prProdLinesReviewed |-> MapSeq(sampled, LAMBDA p : plus(p.prodAdditions, p.prodDeletions)),
      prTestLinesReviewed |-> MapSeq(sampled, LAMBDA p : plus(p.testAdditions, p.testDeletions)),
      iterationsPerPr |-> MapSeq(sampled, LAMBDA p : p.iterationCount),
      prsReviewed |-> {prKey(sampled[i]) : i \in 1..Len(sampled)},
      prsByRepo |-> prsByRepoOf(sampled),
      reviewedPrCloseTimes |->
        MapSeq(sampled, LAMBDA p : calculateWorkingHours(p.createdAt, p.mergedAt))]

\* the keys of reviewerStats in Map iteration order
reviewersOf(prDetails) ==
  firstOccurrences(MapSeq(reviewVisits(prDetails), LAMBDA v : v.review.reviewer))

\* avg(arr) rendered: Math.round(avg(arr)), and avg(arr).toFixed(k) in 10^-k units
\* when the samples are in 1/perUnit units
avgRounded(arr) == IF arr = <<>> THEN 0 ELSE RoundDiv(sum(arr), Len(arr))
avgFixed(arr, scale, perUnit) ==
  IF arr = <<>> THEN 0 ELSE RoundDiv(IF sum(arr) = NaN THEN NaN ELSE scale * sum(arr),
                                     Len(arr) * perUnit)

\* x.toFixed(2) for a duration x kept in slots
hoursFixed2(x) == RoundDiv(100 * x, SlotsPerHour)

\* sorted[Math.floor(sorted.length / 2)], null on an empty sample
median(arr) == IF arr = <<>> THEN Null ELSE sortAsc(arr)[(Len(arr) \div 2) + 1]

\* sorted[Math.floor(sorted.length * 0.9)], null on an empty sample
percentile90(arr) == IF arr = <<>> THEN Null ELSE sortAsc(arr)[((Len(arr) * 9) \div 10) + 1]

\* Math.min(...arr), null on an empty sample
fastest(arr) == IF arr = <<>> THEN Null ELSE sortAsc(arr)[1]

\* `x ? x.toFixed(2) : null` for a duration in slots
hoursOrNull(x) == IF TruthyNum(x) THEN hoursFixed2(x) ELSE Null

\* one row of the reviewer summary (lines 560-600)
reviewerRow(stats) ==
  LET avgClose == IF stats.reviewedPrCloseTimes = <<>> THEN 0
                  ELSE sum(stats.reviewedPrCloseTimes)
  IN [reviewer |-> stats.reviewer,
      totalReviews |-> stats.totalReviews,
      prsReviewedCount |-> Cardinality(stats.prsReviewed),
      approvals |-> stats.approvals,
      changesRequested |-> stats.changesRequested,
      commentOnlyReviews |-> stats.commentOnlyReviews,
      noCommentApprovals |-> stats.noCommentApprovals,
      noCommentApprovalPct |->
        IF stats.approvals > 0
        THEN RoundDiv(1000 * stats.noCommentApprovals, stats.approvals) ELSE 0,
      totalInlineComments |-> stats.totalInlineComments,
      totalConversationComments |-> stats.totalConversationComments,
      medianResponseHours |-> hoursOrNull(median(stats.responseTimes)),
      p90ResponseHours |-> hoursOrNull(percentile90(stats.responseTimes)),
      fastestResponseHours |-> hoursOrNull(fastest(stats.responseTimes)),
      avgPrSizeReviewed |-> avgRounded(stats.prSizesReviewed),
      avgPrProdLinesReviewed |-> avgRounded(stats.prProdLinesReviewed),
      avgPrTestLinesReviewed |-> avgRounded(stats.prTestLinesReviewed),
      avgIterationsPerPr |-> avgFixed(stats.iterationsPerPr, 100, 1),
      avgReviewedPrCloseTime |->
        IF TruthyNum(avgClose)
        THEN avgFixed(stats.reviewedPrCloseTimes, 100, SlotsPerHour) ELSE Null,
      prsWithMultipleRounds |-> countIf(stats.iterationsPerPr, LAMBDA i : i > 1),
      prsByRepo |-> stats.prsByRepo]

calculateReviewerSummary(prDetails) ==
  LET reviewers == reviewersOf(prDetails)
      rows == [k \in 1..Len(reviewers) |->
                 reviewerRow(reviewerStatsOf(prDetails, reviewers[k]))]
  IN sortDesc(rows, "totalReviews")

----------------------------------------------------------------------------
(* Author aggregation: calculateAuthorSummary *)

\* `x || d` on a number
orDefault(x, d) == IF TruthyNum(x) THEN x ELSE d

\* the accumulator of one author after the loop (lines 610-657)
authorStatsOf(prDetails, author) ==
  LET mine == FilterSeq(prDetails, LAMBDA pr : ~skipsPR(pr) /\ pr.author = author)
      answered == FilterSeq(mine, LAMBDA pr : TruthyTime(pr.firstResponseAt))
  IN [author |-> author,
      prsAuthored |-> Len(mine),
      prSizes |-> MapSeq(mine, LAMBDA p : plus(p.totalAdditions, p.totalDeletions)),
      prodLines |-> MapSeq(mine, LAMBDA p : plus(p.prodAdditions, p.prodDeletions)),
      testLines |-> MapSeq(mine, LAMBDA p : plus(p.testAdditions, p.testDeletions)),
      reviewTimes |->
        FilterSeq(MapSeq(answered, LAMBDA p :
                    calculateWorkingHours(p.createdAt, p.firstResponseAt)),
                  LAMBDA h : h >= 0),
      closeTimes |-> MapSeq(mine, LAMBDA p : calculateWorkingHours(p.createdAt, p.mergedAt)),
      reviewCounts |-> MapSeq(mine, LAMBDA p : Len(p.reviews)),
      iterations |-> MapSeq(mine, LAMBDA p : p.iterationCount),
      commitCounts |-> MapSeq(mine, LAMBDA p : orDefault(p.commitCount, 1)),
      churnPercentages |-> MapSeq(mine, LAMBDA p : orDefault(p.churnPercentage, 0)),
      fileChurnCounts |-> MapSeq(mine, LAMBDA p : orDefault(p.fileChurnCount, 0)),
      prsByRepo |-> prsByRepoOf(mine)]

\* one row of the author summary (lines 664-691); churn percentages are in tenths
authorRow(stats) ==
  LET avgReviewTime == IF stats.reviewTimes = <<>> THEN Null ELSE sum(stats.reviewTimes)
  IN [author |-> stats.author,
      prsAuthored |-> stats.prsAuthored,
      authoredPrAvgSize |-> avgRounded(stats.prSizes),
      authoredPrAvgProdLines |-> avgRounded(stats.prodLines),
      authoredPrAvgTestLines |-> avgRounded(stats.testLines),
      authoredPrAvgReviewTime |->
        IF TruthyNum(avgReviewTime)
        THEN avgFixed(stats.reviewTimes, 100, SlotsPerHour) ELSE Null,
      authoredPrAvgCloseTime |-> avgFixed(stats.closeTimes, 100, SlotsPerHour),
      authoredPrAvgReviewCount |-> avgFixed(stats.reviewCounts, 100, 1),
      authoredPrAvgIterations |-> avgFixed(stats.iterations, 100, 1),
      authoredPrAvgCommits |-> avgFixed(stats.commitCounts, 100, 1),
      authoredPrAvgChurnPct |-> avgFixed(stats.churnPercentages, 1, 1),
      authoredPrAvgFileChurn |-> avgFixed(stats.fileChurnCounts, 10, 1),
      prsByRepo |-> stats.prsByRepo]

\* the keys of authorStats in Map iteration order
authorsOf(prDetails) ==
  firstOccurrences(MapSeq(FilterSeq(prDetails, LAMBDA pr : ~skipsPR(pr)),
                          LAMBDA pr : pr.author))

calculateAuthorSummary(prDetails) ==
  LET authors == authorsOf(prDetails)
      rows == [k \in 1..Len(authors) |-> authorRow(authorStatsOf(prDetails, authors[k]))]
  IN sortDesc(rows, "prsAuthored")

----------------------------------------------------------------------------
(* Team aggregation: calculateTeamSummary *)

\* a filter that keeps the error records
validPRs_everyPR(prDetails) == prDetails

\* const validPRs = prDetails.filter(p => !p.error)
validPRs(prDetails) == FilterSeq(prDetails, LAMBDA p : ~TruthyStr(p.error))

\* weightedAvg(items, valueField, weightField), rounded with Math.round;
\* values and weights are the non-negative integers of the reviewer rows
\* a weighted average that divides whatever the total weight is: 0 / 0 is NaN
weightedAvg_alwaysDivides(items, valueField, weightField) ==
  LET value(i) == orDefault(items[i][valueField], 0)
      weight(i) == orDefault(items[i][weightField], 0)
      totalWeight == sum([i \in 1..Len(items) |-> weight(i)])
      weightedSum == sum([i \in 1..Len(items) |-> value(i) * weight(i)])
  IN IF totalWeight # 0 THEN [num |-> weightedSum, den |-> totalWeight]
     ELSE [num |-> NaN, den |-> 1]

\* weightedAvg(items, valueField, weightField): the quotient is kept as the
\* fraction num / den; `parseFloat(x) || 0` and `x || 0` are orDefault(x, 0)
weightedAvg(items, valueField, weightField) ==
  LET value(i) == orDefault(items[i][valueField], 0)
      weight(i) == orDefault(items[i][weightField], 0)
      totalWeight == sum([i \in 1..Len(items) |-> weight(i)])
      weightedSum == sum([i \in 1..Len(items) |-> value(i) * weight(i)])
  IN IF totalWeight > 0 THEN [num |-> weightedSum, den |-> totalWeight]
     ELSE [num |-> 0, den |-> 1]

\* Math.round(weightedAvg(items, valueField, weightField))
weightedAvgRounded(items, valueField, weightField) ==
  LET q == weightedAvg(items, valueField, weightField)
  IN RoundDiv(q.num, q.den)

calculateTeamSummary(authorSummary, reviewerSummary, prDetails) ==
  LET valid == validPRs(prDetails)
      iterations == MapSeq(valid, LAMBDA p : p.iterationCount)
      closeTimes ==
        FilterSeq(MapSeq(valid, LAMBDA p : calculateWorkingHours(p.createdAt, p.mergedAt)),
                  LAMBDA h : h > 0)
      churnPercentages == MapSeq(FilterSeq(valid, LAMBDA p : p.churnPercentage # NaN),
                                 LAMBDA p : p.churnPercentage)
      fileChurnCounts == MapSeq(FilterSeq(valid, LAMBDA p : p.fileChurnCount # NaN),
                                LAMBDA p : p.fileChurnCount)
      allResponseTimes ==
        FilterSeq(MapSeq(FilterSeq(valid, LAMBDA p : TruthyTime(p.firstResponseAt)),
                         LAMBDA p : calculateWorkingHours(p.createdAt, p.firstResponseAt)),
                  LAMBDA t : t > 0)
      visits == reviewVisits(valid)
      totalReviews == Len(visits)
      totalApprovals == countIf(visits, LAMBDA v : v.review.state = "APPROVED")
      totalNoCommentApprovals ==
        countIf(visits, LAMBDA v : v.review.state = "APPROVED" /\ ~v.review.hasComments)
      totalInlineComments == sum(MapSeq(visits, LAMBDA v : v.review.inlineCommentCount))
  IN [authored |->
        [totalPRs |-> Len(valid),
         totalDevelopers |-> Len(authorSummary),
         avgPrSize |-> avgRounded(MapSeq(valid, LAMBDA p : plus(p.totalAdditions, p.totalDeletions))),
         avgProdLines |-> avgRounded(MapSeq(valid, LAMBDA p : plus(p.prodAdditions, p.prodDeletions))),
         avgTestLines |-> avgRounded(MapSeq(valid, LAMBDA p : plus(p.testAdditions, p.testDeletions))),
         avgCloseTime |-> IF closeTimes # <<>> THEN avgFixed(closeTimes, 100, SlotsPerHour)
                          ELSE Null,
         avgIterations |-> avgFixed(iterations, 100, 1),
         avgChurnPct |-> IF churnPercentages # <<>> THEN avgFixed(churnPercentages, 1, 1) ELSE 0,
         avgFileChurn |-> IF fileChurnCounts # <<>> THEN avgFixed(fileChurnCounts, 10, 1) ELSE 0,
         avgCommitsPerPr |-> avgFixed(MapSeq(valid, LAMBDA p : orDefault(p.commitCount, 1)), 100, 1)],
      reviewed |->
        [totalReviews |-> totalReviews,
         totalReviewers |-> Len(reviewerSummary),
         avgPrSizeReviewed |->
           weightedAvgRounded(reviewerSummary, "avgPrSizeReviewed", "prsReviewedCount"),
         avgProdLinesReviewed |->
           weightedAvgRounded(reviewerSummary, "avgPrProdLinesReviewed", "prsReviewedCount"),
         avgTestLinesReviewed |->
           weightedAvgRounded(reviewerSummary, "avgPrTestLinesReviewed", "prsReviewedCount"),
         medianResponseTime |->
           IF allResponseTimes # <<>> THEN hoursFixed2(median(allResponseTimes)) ELSE Null,
         overallNoCommentPct |->
           IF totalApprovals > 0 THEN RoundDiv(1000 * totalNoCommentApprovals, totalApprovals)
           ELSE 0,
         avgInlineComments |->
           IF totalReviews > 0 THEN RoundDiv(100 * totalInlineComments, totalReviews) ELSE 0,
         avgIterationsPerPr |-> avgFixed(iterations, 100, 1)]]

----------------------------------------------------------------------------
(* Specification of the working-hours calculator: the inputs are drawn   *)
(* from the horizon, one step applies the function.                       *)

WHIdle ==
  /\ whStart = 0 /\ whEnd = 0 /\ whResult = 0 /\ whDone = FALSE

RRIdle ==
  /\ rrPr = <<>> /\ rrFetched = <<>> /\ rrResult = <<>> /\ rrDone = FALSE
  /\ rrSummary = <<>> /\ rrSummarized = FALSE

AggIdle ==
  /\ aggBatch = <<>> /\ aggReviewerStats = <<>> /\ aggReviewer = <<>>
  /\ aggAuthor = <<>> /\ aggTeam = <<>> /\ aggDone = FALSE

RunIdle ==
  /\ allPRs = <<>> /\ failing = {} /\ pc = "idle" /\ index = 0 /\ pool = <<>>
  /\ promise = 0 /\ results = <<>> /\ status = <<>>
  /\ aggregated = <<>> /\ teamSummary = <<>> /\ details = <<>>

\* idle values of the further components
ClIdle == clFiles = <<>> /\ clResult = <<>> /\ clDone = FALSE
ChIdle == chCommits = <<>> /\ chNext = <<>> /\ chResult = <<>> /\ chRework = 0 /\ chReworkAfter = 0 /\ chDone = FALSE
QsIdle == qsDev = <<>> /\ qsTeamAvg = <<>> /\ qsScores = <<>> /\ qsDone = FALSE
WaIdle == waItems = <<>> /\ waResult = <<>> /\ waDone = FALSE
CsvIdle == csvSummary = <<>> /\ csvOut = <<>> /\ csvDone = FALSE
MainIdle == mainArgs = <<>> /\ mainPc = "idle" /\ mainRepos = <<>> /\ mainFound = 0 /\ mainExit = Null
DashIdle == dashData = <<>> /\ dashExcludedPRs = {} /\ dashFiltered = <<>>
GhIdle == ghEndpoint = "" /\ ghPaginate = FALSE /\ ghAttempt = 0 /\ ghPc = "idle" /\ ghLog = <<>> /\ ghWaits = <<>> /\ ghResult = "" /\ ghThrown = NoError
HomeIdle == homeSelected = "" /\ homeData = "" /\ homeLoading = FALSE /\ homeError = NoError /\ homePending = <<>>

ExtIdle == ClIdle /\ ChIdle /\ QsIdle /\ WaIdle /\ CsvIdle /\ MainIdle /\ DashIdle /\ GhIdle /\ HomeIdle

clRest == <<whVars, rrVars, aggVars, runVars, chVars, qsVars, waVars, csvVars, mainVars, dashVars, ghVars, homeVars>>
ClRestIdle == WHIdle /\ RRIdle /\ AggIdle /\ RunIdle /\ ChIdle /\ QsIdle /\ WaIdle /\ CsvIdle /\ MainIdle /\ DashIdle /\ GhIdle /\ HomeIdle
chRest == <<whVars, rrVars, aggVars, runVars, clVars, qsVars, waVars, csvVars, mainVars, dashVars, ghVars, homeVars>>
ChRestIdle == WHIdle /\ RRIdle /\ AggIdle /\ RunIdle /\ ClIdle /\ QsIdle /\ WaIdle /\ CsvIdle /\ MainIdle /\ DashIdle /\ GhIdle /\ HomeIdle
qsRest == <<whVars, rrVars, aggVars, runVars, clVars, chVars, waVars, csvVars, mainVars, dashVars, ghVars, homeVars>>
QsRestIdle == WHIdle /\ RRIdle /\ AggIdle /\ RunIdle /\ ClIdle /\ ChIdle /\ WaIdle /\ CsvIdle /\ MainIdle /\ DashIdle /\ GhIdle /\ HomeIdle
waRest == <<whVars, rrVars, aggVars, runVars, clVars, chVars, qsVars, csvVars, mainVars, dashVars, ghVars, homeVars>>
WaRestIdle == WHIdle /\ RRIdle /\ AggIdle /\ RunIdle /\ ClIdle /\ ChIdle /\ QsIdle /\ CsvIdle /\ MainIdle /\ DashIdle /\ GhIdle /\ HomeIdle
csvRest == <<whVars, rrVars, aggVars, runVars, clVars, chVars, qsVars, waVars, mainVars, dashVars, ghVars, homeVars>>
CsvRestIdle == WHIdle /\ RRIdle /\ AggIdle /\ RunIdle /\ ClIdle /\ ChIdle /\ QsIdle /\ WaIdle /\ MainIdle /\ DashIdle /\ GhIdle /\ HomeIdle
mainRest == <<whVars, rrVars, aggVars, runVars, clVars, chVars, qsVars, waVars, csvVars, dashVars, ghVars, homeVars>>
MainRestIdle == WHIdle /\ RRIdle /\ AggIdle /\ RunIdle /\ ClIdle /\ ChIdle /\ QsIdle /\ WaIdle /\ CsvIdle /\ DashIdle /\ GhIdle /\ HomeIdle
dashRest == <<whVars, rrVars, aggVars, runVars, clVars, chVars, qsVars, waVars, csvVars, mainVars, ghVars, homeVars>>
DashRestIdle == WHIdle /\ RRIdle /\ AggIdle /\ RunIdle /\ ClIdle /\ ChIdle /\ QsIdle /\ WaIdle /\ CsvIdle /\ MainIdle /\ GhIdle /\ HomeIdle
ghRest == <<whVars, rrVars, aggVars, runVars, clVars, chVars, qsVars, waVars, csvVars, mainVars, dashVars, homeVars>>
GhRestIdle == WHIdle /\ RRIdle /\ AggIdle /\ RunIdle /\ ClIdle /\ ChIdle /\ QsIdle /\ WaIdle /\ CsvIdle /\ MainIdle /\ DashIdle /\ HomeIdle
homeRest == <<whVars, rrVars, aggVars, runVars, clVars, chVars, qsVars, waVars, csvVars, mainVars, dashVars, ghVars>>
HomeRestIdle == WHIdle /\ RRIdle /\ AggIdle /\ RunIdle /\ ClIdle /\ ChIdle /\ QsIdle /\ WaIdle /\ CsvIdle /\ MainIdle /\ DashIdle /\ GhIdle
\* end of the idle values

WHInit ==
  /\ whStart \in 0..Horizon
  /\ whEnd \in 0..Horizon
  /\ whResult = 0
  /\ whDone = FALSE
  /\ RRIdle
  /\ AggIdle
  /\ RunIdle
  /\ ExtIdle

WHCompute ==
  /\ ~whDone
  /\ whResult' = calculateWorkingHours(whStart, whEnd)
  /\ whDone' = TRUE
  /\ UNCHANGED <<whStart, whEnd>>
  /\ UNCHANGED <<rrVars, aggVars, runVars, extVars>>

WHNext == WHCompute

SpecWH == WHInit /\ [][WHNext]_vars

----------------------------------------------------------------------------
(* Specification of the enrichment of one PR: the raw PR and the API        *)
(* responses are drawn from catalogues, one step applies processPR.         *)

\* Monday, hour h
tm(h) == At(0, h)

\* h hours after c
after(c, h) == c + h * SlotsPerHour

NoFile == <<>>
SrcFile == <<"s", "r", "c", "/", "a", ".", "t", "s">>
SrcTestFile == <<"s", "r", "c", "/", "a", ".", "t", "e", "s", "t", ".", "t", "s">>
TestDirFile == <<"t", "e", "s", "t", "s", "/", "a", ".", "t", "s">>

\* reviews as the API returns them for a PR created at c
ApprovesSilently(user, c, h) ==
  [user |-> user, state |-> "APPROVED", submitted_at |-> after(c, h), body |-> <<>>,
   inlineOk |-> TRUE, inlineComments |-> <<>>]

ReviewShapes(c) ==
  { ApprovesSilently("bob", c, 4),
    [user |-> "bob", state |-> "COMMENTED", submitted_at |-> after(c, 3),
     body |-> <<"o", "k">>, inlineOk |-> TRUE, inlineComments |-> <<after(c, 2)>>],
    [user |-> "cat", state |-> "CHANGES_REQUESTED", submitted_at |-> after(c, 3),
     body |-> <<" ">>, inlineOk |-> TRUE, inlineComments |-> <<after(c, 5), after(c, 2)>>],
    [user |-> "cat", state |-> "APPROVED", submitted_at |-> after(c, 6), body |-> <<>>,
     inlineOk |-> FALSE, inlineComments |-> <<after(c, 1)>>],
    [user |-> "ann", state |-> "COMMENTED", submitted_at |-> after(c, 1),
     body |-> <<"r", "e">>, inlineOk |-> TRUE, inlineComments |-> <<after(c, 1)>>],
    [user |-> "ann", state |-> "COMMENTED", submitted_at |-> after(c, 7), body |-> <<>>,
     inlineOk |-> TRUE, inlineComments |-> <<>>],
    [user |-> "bob", state |-> "DISMISSED", submitted_at |-> after(c, 7),
     body |-> <<" ", "x", " ">>, inlineOk |-> TRUE, inlineComments |-> <<>>],
    [user |-> "cat", state |-> "APPROVED", submitted_at |-> after(c, 1),
     body |-> <<" ", " ">>, inlineOk |-> TRUE, inlineComments |-> <<>>] }

ConversationShapes(c) ==
  { [user |-> "ann", created_at |-> c],
    [user |-> "bob", created_at |-> after(c, 2)],
    [user |-> "bob", created_at |-> after(c, 8)],
    [user |-> "cat", created_at |-> after(c, 3)],
    [user |-> NoLogin, created_at |-> c] }

FailureShapes ==
  { [filesError |-> NoError, reviewsError |-> NoError, timelineError |-> NoError],
    [filesError |-> "Command failed: gh api files", reviewsError |-> NoError,
     timelineError |-> NoError],
    [filesError |-> NoError, reviewsError |-> "Command failed: gh api reviews",
     timelineError |-> NoError],
    [filesError |-> NoError, reviewsError |-> NoError,
     timelineError |-> "Command failed: gh api timeline"] }

FilesShape ==
  << [filename |-> SrcFile, additions |-> 100, deletions |-> 30],
     [filename |-> TestDirFile, additions |-> 20, deletions |-> 0] >>

CommitsShape ==
  << [files |-> << [filename |-> SrcFile, additions |-> 90] >>],
     [files |-> << [filename |-> SrcFile, additions |-> 10],
                   [filename |-> TestDirFile, additions |-> 20] >>] >>

RRInit ==
  /\ \E author \in {"ann", "bob"} :
       rrPr = [repo |-> "fe", number |-> 1, author |-> author,
               createdAt |-> tm(9), mergedAt |-> At(1, 12)]
  /\ \E f \in FailureShapes, revs \in SeqsUpTo(ReviewShapes(tm(9)), MaxReviews),
        ok \in BOOLEAN, conv \in SeqsUpTo(ConversationShapes(tm(9)), MaxConversation) :
       /\ (f.filesError # NoError \/ f.reviewsError # NoError \/ f.timelineError # NoError
           \/ ~ok) => conv = <<>>
       /\ (f.filesError # NoError \/ f.reviewsError # NoError) => revs = <<>>
       /\ rrFetched = [filesError |-> f.filesError, reviewsError |-> f.reviewsError,
                       timelineError |-> f.timelineError,
                       files |-> FilesShape, reviews |-> revs,
                       conversationOk |-> ok, conversationComments |-> conv,
                       commits |-> CommitsShape]
  /\ rrResult = <<>>
  /\ rrDone = FALSE
  /\ rrSummary = <<>>
  /\ rrSummarized = FALSE
  /\ WHIdle
  /\ AggIdle
  /\ RunIdle
  /\ ExtIdle

RRProcess ==
  /\ ~rrDone
  /\ rrResult' = processPR(rrPr, rrFetched)
  /\ rrDone' = TRUE
  /\ UNCHANGED <<rrPr, rrFetched, rrSummary, rrSummarized>>
  /\ UNCHANGED <<whVars, aggVars, runVars, extVars>>

\* calculateReviewerSummary on the record alone
RRSummarize ==
  /\ rrDone /\ ~rrSummarized
  /\ rrSummary' = calculateReviewerSummary(<<rrResult>>)
  /\ rrSummarized' = TRUE
  /\ UNCHANGED <<rrPr, rrFetched, rrResult, rrDone>>
  /\ UNCHANGED <<whVars, aggVars, runVars, extVars>>

RRNext ==
  \/ RRProcess
  \/ RRSummarize

SpecReview == RRInit /\ [][RRNext]_vars

----------------------------------------------------------------------------
(* Specification of the aggregators: a batch of records, each the value     *)
(* processPR resolves with for one PR, is drawn from a catalogue of PRs and *)
(* of API responses; one step runs the three aggregators as main does.      *)

\* the PRs the batches are made of: identity, creation and merge time
RawPRs ==
  { [repo |-> "fe", number |-> 1, createdAt |-> tm(9), mergedAt |-> tm(14)],
    [repo |-> "fe", number |-> 2, createdAt |-> At(4, 16), mergedAt |-> At(7, 11)],
    [repo |-> "be", number |-> 1, createdAt |-> At(1, 10), mergedAt |-> At(1, 10)],
    [repo |-> "be", number |-> 2, createdAt |-> At(5, 12), mergedAt |-> At(6, 12)] }

Fetched(f, revs, conv) ==
  [filesError |-> f.filesError, reviewsError |-> f.reviewsError,
   timelineError |-> f.timelineError,
   files |-> FilesShape, reviews |-> revs,
   conversationOk |-> TRUE, conversationComments |-> conv,
   commits |-> CommitsShape]

NoFailure == [filesError |-> NoError, reviewsError |-> NoError, timelineError |-> NoError]
FilesFailure == [filesError |-> "Command failed: gh api files", reviewsError |-> NoError,
                 timelineError |-> NoError]
TimelineFailure == [filesError |-> NoError, reviewsError |-> NoError,
                    timelineError |-> "Command failed: gh api timeline"]

\* the author of a PR and what the API returns for it, for a PR created at c
Cases(c) ==
  << [author |-> "ann", fetched |-> Fetched(NoFailure, <<>>, <<>>)],
    [author |-> "ann", fetched |-> Fetched(NoFailure, <<ApprovesSilently("bob", c, 4)>>, <<>>)],
    [author |-> "ann",
     fetched |-> Fetched(NoFailure,
                         << [user |-> "bob", state |-> "COMMENTED",
                             submitted_at |-> after(c, 3), body |-> <<"o", "k">>,
                             inlineOk |-> TRUE, inlineComments |-> <<after(c, 2)>>],
                            ApprovesSilently("bob", c, 30) >>,
                         << [user |-> "bob", created_at |-> after(c, 1)] >>)],
    [author |-> "cat",
     fetched |-> Fetched(NoFailure,
                         << [user |-> "ann", state |-> "COMMENTED",
                             submitted_at |-> after(c, 7), body |-> <<>>,
                             inlineOk |-> TRUE, inlineComments |-> <<>>],
                            [user |-> "bob", state |-> "DISMISSED",
                             submitted_at |-> after(c, 8), body |-> <<" ", "x", " ">>,
                             inlineOk |-> TRUE, inlineComments |-> <<>>] >>,
                         <<>>)],
    [author |-> "bob",
     fetched |-> Fetched(NoFailure,
                         << [user |-> "cat", state |-> "CHANGES_REQUESTED",
                             submitted_at |-> after(c, 3), body |-> <<" ">>,
                             inlineOk |-> TRUE,
                             inlineComments |-> <<after(c, 5), after(c, 2)>>],
                            ApprovesSilently("cat", c, 6),
                            ApprovesSilently("ann", c, 6) >>,
                         << [user |-> "bob", created_at |-> c] >>)],
    [author |-> "ann", fetched |-> Fetched(FilesFailure, <<>>, <<>>)],
    [author |-> "dan",
     fetched |-> Fetched(TimelineFailure, <<ApprovesSilently("bob", c, 4)>>, <<>>)] >>

\* the record processPR resolves with for the raw PR p in case k
Enriched(p, k) ==
  LET c == Cases(p.createdAt)[k]
  IN processPR([repo |-> p.repo, number |-> p.number, author |-> c.author,
                createdAt |-> p.createdAt, mergedAt |-> p.mergedAt], c.fetched)

\* the table of Enriched over the catalogue
EnrichedTable == [p \in RawPRs |-> [k \in 1..Len(Cases(0)) |-> Enriched(p, k)]]

\* fetchMergedPRs lists each PR of a repository once
DistinctPRs(batch) ==
  \A i, j \in 1..Len(batch) :
     (batch[i].repo = batch[j].repo /\ batch[i].number = batch[j].number) => i = j

AggInit ==
  /\ \E prs \in SeqsUpTo(RawPRs, MaxBatch) :
       /\ DistinctPRs(prs)
       /\ \E ks \in [1..Len(prs) -> 1..Len(Cases(0))] :
            aggBatch = [i \in 1..Len(prs) |-> EnrichedTable[prs[i]][ks[i]]]
  /\ aggReviewerStats = <<>>
  /\ aggReviewer = <<>>
  /\ aggAuthor = <<>>
  /\ aggTeam = <<>>
  /\ aggDone = FALSE
  /\ WHIdle
  /\ RRIdle
  /\ RunIdle
  /\ ExtIdle

\* main, lines 848-856
AggCompute ==
  /\ ~aggDone
  /\ LET summary == calculateReviewerSummary(aggBatch)
         authorSummary == calculateAuthorSummary(aggBatch)
         reviewers == reviewersOf(aggBatch)
     IN /\ aggReviewerStats' =
             [k \in 1..Len(reviewers) |-> reviewerStatsOf(aggBatch, reviewers[k])]
        /\ aggReviewer' = summary
        /\ aggAuthor' = authorSummary
        /\ aggTeam' = calculateTeamSummary(authorSummary, summary, aggBatch)
  /\ aggDone' = TRUE
  /\ UNCHANGED aggBatch
  /\ UNCHANGED <<whVars, rrVars, runVars, extVars>>

AggNext == AggCompute

SpecAgg == AggInit /\ [][AggNext]_vars

----------------------------------------------------------------------------
(* Specification of a collector run from the call of                        *)
(* processPRsWithConcurrency to the writing of the JSON file (main, lines   *)
(* 843-875).  A processPR promise is named by the position of its PR in     *)
(* allPRs.  JavaScript runs main until it awaits a promise that is still    *)
(* pending, so a processPR promise settles only while main is suspended.    *)

\* config.prConcurrency
prConcurrency == 5

\* allPRs of a run with n PRs: what fetchMergedPRs lists for two repositories
RawPR(i) ==
  [repo |-> IF i % 2 = 1 THEN "fe" ELSE "be", number |-> (i + 1) \div 2,
   author |-> IF i % 3 = 0 THEN "bob" ELSE "ann",
   createdAt |-> tm(9), mergedAt |-> tm(14)]

ReviewsFailure == [filesError |-> NoError, reviewsError |-> "Command failed: gh api reviews",
                   timelineError |-> NoError]

\* what the API returns for the i-th PR
FetchedFor(i) ==
  IF i \in failing
  THEN Fetched(<<FilesFailure, ReviewsFailure, TimelineFailure>>[(i % 3) + 1], <<>>, <<>>)
  ELSE Fetched(NoFailure, <<ApprovesSilently("cat", tm(9), 4)>>, <<>>)

Init ==
  /\ \E n \in 1..MaxPRs :
       /\ allPRs = [i \in 1..n |-> RawPR(i)]
       /\ status = [i \in 1..n |-> "unstarted"]
       /\ \E f \in SUBSET (1..n) : Cardinality(f) <= MaxFailures /\ failing = f
  /\ pc = "loop"
  /\ index = 0
  /\ pool = <<>>
  /\ promise = 0
  /\ results = <<>>
  /\ aggregated = <<>>
  /\ teamSummary = <<>>
  /\ details = <<>>
  /\ WHIdle
  /\ RRIdle
  /\ AggIdle
  /\ ExtIdle

Settled(i) == status[i] = "settled"
InFlight == {i \in 1..Len(allPRs) : status[i] = "pending"}

\* pool.splice(pool.findIndex(p => p === promise), 1)
splicePromise(p, pr) ==
  LET k == CHOOSE i \in 1..Len(p) : p[i] = pr /\ \A j \in 1..(i - 1) : p[j] # pr
  IN SubSeq(p, 1, k - 1) \o SubSeq(p, k + 1, Len(p))

\* one iteration of the for loop up to its await (lines 452-463)
StartPR ==
  /\ pc = "loop"
  /\ index < Len(allPRs)
  /\ index' = index + 1
  /\ status' = [status EXCEPT ![index + 1] = "pending"]
  /\ promise' = index + 1
  /\ pool' = Append(pool, index + 1)
  /\ pc' = IF Len(pool) + 1 >= prConcurrency THEN "race" ELSE "loop"
  /\ UNCHANGED <<allPRs, failing, results, aggregated, teamSummary, details>>
  /\ UNCHANGED <<whVars, rrVars, aggVars, extVars>>

\* await Promise.race(pool) resumes; line 464
RaceResumes ==
  /\ pc = "race"
  /\ \E i \in 1..Len(pool) : Settled(pool[i])
  /\ pool' = splicePromise(pool, promise)
  /\ pc' = "loop"
  /\ UNCHANGED <<allPRs, failing, index, promise, results, status,
                 aggregated, teamSummary, details>>
  /\ UNCHANGED <<whVars, rrVars, aggVars, extVars>>

\* the for loop ends
LoopEnds ==
  /\ pc = "loop"
  /\ index = Len(allPRs)
  /\ pc' = "all"
  /\ UNCHANGED <<allPRs, failing, index, pool, promise, results, status,
                 aggregated, teamSummary, details>>
  /\ UNCHANGED <<whVars, rrVars, aggVars, extVars>>

\* await Promise.all(pool) resumes, processPRsWithConcurrency returns results
\* and main runs the aggregators on it (lines 468-469 and 844-856)
AllResumes ==
  /\ pc = "all"
  /\ \A i \in 1..Len(pool) : Settled(pool[i])
  /\ aggregated' = results
  /\ teamSummary' = calculateTeamSummary(calculateAuthorSummary(results),
                                         calculateReviewerSummary(results), results)
  /\ pc' = "mkdir"
  /\ UNCHANGED <<allPRs, failing, index, pool, promise, results, status, details>>
  /\ UNCHANGED <<whVars, rrVars, aggVars, extVars>>

\* await mkdir resumes and outputData, whose details is the results array,
\* is serialized (lines 859-875)
WriteJSON ==
  /\ pc = "mkdir"
  /\ details' = results
  /\ pc' = "written"
  /\ UNCHANGED <<allPRs, failing, index, pool, promise, results, status,
                 aggregated, teamSummary>>
  /\ UNCHANGED <<whVars, rrVars, aggVars, extVars>>

MainSuspended ==
  \/ pc = "race" /\ \A i \in 1..Len(pool) : ~Settled(pool[i])
  \/ pc = "all" /\ \E i \in 1..Len(pool) : ~Settled(pool[i])
  \/ pc = "mkdir"
  \/ pc = "written"

\* a processPR promise settles and its then callback pushes the record
\* (lines 454-458); processPR never rejects
Settle(i) ==
  /\ status[i] = "pending"
  /\ MainSuspended
  /\ status' = [status EXCEPT ![i] = "settled"]
  /\ results' = Append(results, processPR(allPRs[i], FetchedFor(i)))
  /\ UNCHANGED <<allPRs, failing, pc, index, pool, promise,
                 aggregated, teamSummary, details>>
  /\ UNCHANGED <<whVars, rrVars, aggVars, extVars>>

SettleSome == \E i \in 1..Len(allPRs) : Settle(i)

Next ==
  \/ StartPR
  \/ RaceResumes
  \/ LoopEnds
  \/ AllResumes
  \/ WriteJSON
  \/ SettleSome

Spec == Init /\ [][Next]_vars

----------------------------------------------------------------------------
(* Claims about the working-hours calculator *)

\* C7: for every pair (start, end) calculateWorkingHours(start, end) is >= 0,
\* and it is exactly 0 whenever end <= start.
C7_NonNegative ==
  whDone => /\ whResult >= 0
            /\ (whEnd <= whStart => whResult = 0)

C7_Witness == whDone /\ whEnd < whStart /\ whResult = 0

\* wall-clock reading of a timestamp: day index, time of the day in slots
DayIndex(t) == t \div SlotsPerDay
TimeOfDay(t) == t % SlotsPerDay
IsWeekdayAt(t) == getDay(StartOfDay(t)) \in 1..5
InExposedWindow(t) ==
  /\ IsWeekdayAt(t)
  /\ TimeOfDay(t) >= MorningEndHour * SlotsPerHour
  /\ TimeOfDay(t) < EveningStartHour * SlotsPerHour

\* C8: when start <= end both lie inside the exposed window [10:00, 18:00) of
\* the same weekday, calculateWorkingHours(start, end) is end - start exactly.
C8_SameWindowExact ==
  (/\ whDone
   /\ whStart <= whEnd
   /\ DayIndex(whStart) = DayIndex(whEnd)
   /\ InExposedWindow(whStart)
   /\ InExposedWindow(whEnd))
  => whResult = whEnd - whStart

\* Tuesday 10:00 to the same Tuesday 14:00 gives 4 hours
C8_Witness ==
  /\ whDone
  /\ whStart = At(1, 10)
  /\ whEnd = At(1, 14)
  /\ whResult = 4 * SlotsPerHour

\* C9: from a Monday 00:00 to the next Monday 00:00 the result is exactly 40
\* hours (five weekdays of 8 exposed hours).
C9_FullWeek ==
  (/\ whDone
   /\ getDay(whStart) = 1
   /\ TimeOfDay(whStart) = 0
   /\ whEnd = whStart + 7 * SlotsPerDay)
  => whResult = 40 * SlotsPerHour

C9_Witness ==
  /\ whDone
  /\ whStart = At(0, 0)
  /\ whEnd = At(7, 0)
  /\ whResult = 40 * SlotsPerHour

\* C10: from a Friday 16:00 to the following Monday 11:00 the result is
\* exactly 3 hours (Friday 16:00-18:00 plus Monday 10:00-11:00).
C10_WeekendSpan ==
  (/\ whDone
   /\ getDay(StartOfDay(whStart)) = 5
   /\ TimeOfDay(whStart) = 16 * SlotsPerHour
   /\ whEnd = StartOfDay(whStart) + 3 * SlotsPerDay + 11 * SlotsPerHour)
  => whResult = 3 * SlotsPerHour

C10_Witness ==
  /\ whDone
  /\ whStart = At(4, 16)
  /\ whEnd = At(7, 11)
  /\ whResult = 3 * SlotsPerHour

----------------------------------------------------------------------------
(* Claims about the enrichment of one PR *)

\* the timestamps of the activity, as returned by the API, of the participants
\* whose login differs from the PR author: their review submissions, the inline
\* comments of their reviews, their conversation comments
OthersActivity(pr, fetched) ==
  LET revs == {i \in 1..Len(fetched.reviews) : fetched.reviews[i].user # pr.author}
      conv == conversationCommentsOf(fetched)
  IN {fetched.reviews[i].submitted_at : i \in revs}
     \cup UNION {{inlineCommentsOf(fetched.reviews[i])[k] :
                    k \in 1..Len(inlineCommentsOf(fetched.reviews[i]))} : i \in revs}
     \cup {conv[i].created_at :
             i \in {j \in 1..Len(conv) : conv[j].user # NoLogin /\ conv[j].user # pr.author}}

AuthorsActivity(pr, fetched) ==
  LET revs == {i \in 1..Len(fetched.reviews) : fetched.reviews[i].user = pr.author}
      conv == conversationCommentsOf(fetched)
  IN {fetched.reviews[i].submitted_at : i \in revs}
     \cup {conv[i].created_at : i \in {j \in 1..Len(conv) : conv[j].user = pr.author}}

\* C5: firstResponseAt is the earliest timestamp among the activity of the
\* participants other than the PR author, and null when there is none; the
\* author's own reviews and comments never set or lower it.
C5_FirstResponseExcludesAuthor ==
  (rrDone /\ rrResult.error = NoError) =>
    LET others == OthersActivity(rrPr, rrFetched)
    IN IF others = {}
       THEN rrResult.firstResponseAt = Null
       ELSE /\ rrResult.firstResponseAt \in others
            /\ \A t \in others : rrResult.firstResponseAt <= t

\* the author acted before every other participant, and the first response is
\* the later activity of somebody else
C5_Witness ==
  /\ rrDone
  /\ rrResult.error = NoError
  /\ rrResult.firstResponseAt # Null
  /\ \E t \in AuthorsActivity(rrPr, rrFetched) : t < rrResult.firstResponseAt

----------------------------------------------------------------------------
(* Claims about the aggregators *)

\* the batch with every record that carries an error field removed
withoutErrors(batch) == SelectSeq(batch, LAMBDA p : p.error = NoError)

\* C1: a PR record that carries an error field contributes to nothing: the
\* reviewer, author and team summaries of a batch are those of the same batch
\* with every error-carrying record removed.
C1_ErrorRecordsExcluded ==
  aggDone =>
    LET clean == withoutErrors(aggBatch)
        summary == calculateReviewerSummary(clean)
        authorSummary == calculateAuthorSummary(clean)
    IN /\ aggReviewer = summary
       /\ aggAuthor = authorSummary
       /\ aggTeam = calculateTeamSummary(authorSummary, summary, clean)

\* a batch with an error record between records that do reach the summaries
C1_Witness ==
  /\ aggDone
  /\ \E i \in 1..Len(aggBatch) : aggBatch[i].error # NoError
  /\ Len(aggReviewer) > 0
  /\ Len(aggAuthor) > 1

\* the distinct non-error PRs, by (repo, number), with a review of `reviewer`
PRsReviewedBy(batch, reviewer) ==
  { <<batch[i].repo, batch[i].number>> :
      i \in { j \in 1..Len(batch) :
               /\ batch[j].error = NoError
               /\ \E r \in 1..Len(batch[j].reviews) :
                    batch[j].reviews[r].reviewer = reviewer } }

RECURSIVE SumCounts(_)
SumCounts(byRepo) ==
  IF byRepo = <<>> THEN 0 ELSE Head(byRepo).count + SumCounts(Tail(byRepo))

\* C6: every reviewer gets exactly one PR-level sample (size, production size,
\* test size, iteration count, close time, per-repo count) per distinct
\* non-error PR, by (repo, number), that they reviewed, and prsReviewedCount
\* is the number of those PRs.
C6_OneSamplePerReviewedPR ==
  aggDone =>
    \A k \in 1..Len(aggReviewerStats) :
      LET stats == aggReviewerStats[k]
          n == Cardinality(PRsReviewedBy(aggBatch, stats.reviewer))
      IN /\ Len(stats.prSizesReviewed) = n
         /\ Len(stats.prProdLinesReviewed) = n
         /\ Len(stats.prTestLinesReviewed) = n
         /\ Len(stats.iterationsPerPr) = n
         /\ Len(stats.reviewedPrCloseTimes) = n
         /\ SumCounts(stats.prsByRepo) = n
         /\ \A i \in 1..Len(aggReviewer) :
              aggReviewer[i].reviewer = stats.reviewer
                => aggReviewer[i].prsReviewedCount = n

----------------------------------------------------------------------------
(* Claims about the collector run *)

Returned == pc \in {"mkdir", "written"}

recordsOf(arr, i) ==
  countIf(arr, LAMBDA r : r.repo = allPRs[i].repo /\ r.number = allPRs[i].number)

OneRecordPerPR(arr) ==
  /\ Len(arr) = Len(allPRs)
  /\ \A i \in 1..Len(allPRs) : recordsOf(arr, i) = 1

\* C2: once processPRsWithConcurrency has returned, every processPR promise
\* it started has settled, and the results given to the aggregators and
\* written as details hold exactly one record for each input PR.
C2_ReturnsAfterAllSettled ==
  Returned =>
    /\ \A i \in 1..Len(allPRs) : Settled(i)
    /\ OneRecordPerPR(aggregated)
    /\ (pc = "written" => OneRecordPerPR(details))

isErrorRecordOf(r, i) ==
  /\ r.repo = allPRs[i].repo /\ r.number = allPRs[i].number
  /\ r.author = allPRs[i].author
  /\ r.createdAt = allPRs[i].createdAt /\ r.mergedAt = allPRs[i].mergedAt
  /\ r.error # NoError
  /\ r.iterationCount = 0
  /\ r.reviews = <<>>

\* C3: when a fetch of one PR fails, its record is the raw PR with an error
\* string, iterationCount 0 and no reviews, that record is in the written
\* details, and every other PR of the batch is counted by the aggregators.
C3_FailedPRKeepsItsSlot ==
  (pc = "written" /\ failing # {}) =>
    /\ \A i \in failing :
         countIf(details, LAMBDA r : isErrorRecordOf(r, i)) = 1
    /\ teamSummary.authored.totalPRs = Len(allPRs) - Cardinality(failing)

\* C4: at most prConcurrency processPR calls are in flight at any time.
C4_InFlightBounded == Cardinality(InFlight) <= prConcurrency

----------------------------------------------------------------------------
(* Specification of the change classifier: a file list is drawn, one step   *)
(* applies classifyFileChanges.                                             *)

\* the files of a PR as the API lists them
FileShapes ==
  { [filename |-> n, additions |-> a, deletions |-> d] :
      n \in {SrcFile, SrcTestFile, TestDirFile}, a \in {0, 5}, d \in {0, 3} }

ClInit ==
  /\ clFiles \in SeqsUpTo(FileShapes, MaxFiles)
  /\ clResult = <<>>
  /\ clDone = FALSE
  /\ ClRestIdle

ClClassify ==
  /\ ~clDone
  /\ clResult' = classifyFileChanges(clFiles)
  /\ clDone' = TRUE
  /\ UNCHANGED clFiles
  /\ UNCHANGED clRest

ClNext == ClClassify

SpecClassify == ClInit /\ [][ClNext]_vars

\* C11: every file is counted in exactly one of the test and production
\* buckets: the file counts, the additions and the deletions of the two
\* buckets add up to the totals, and the totals are those of the file list.
C11_BucketsPartitionFiles ==
  clDone =>
    /\ clResult.prodFilesChanged + clResult.testFilesChanged = clResult.filesChanged
    /\ clResult.prodAdditions + clResult.testAdditions = clResult.totalAdditions
    /\ clResult.prodDeletions + clResult.testDeletions = clResult.totalDeletions
    /\ clResult.filesChanged = Len(clFiles)
    /\ clResult.totalAdditions = sum([i \in 1..Len(clFiles) |-> clFiles[i].additions])
    /\ clResult.totalDeletions = sum([i \in 1..Len(clFiles) |-> clFiles[i].deletions])

\* a list with a test file and a production file, both with changed lines
C11_Witness ==
  /\ clDone
  /\ clResult.testFilesChanged > 0 /\ clResult.prodFilesChanged > 0
  /\ clResult.testAdditions > 0 /\ clResult.prodAdditions > 0

----------------------------------------------------------------------------
(* Specification of the churn analyzer: a commits argument and a further    *)
(* commit are drawn, one step applies calculateChurnMetrics to the argument *)
(* and records reWorkAdditions for the list without and with the further    *)
(* commit appended.                                                         *)

\* commits as fetchPRCommits returns them
CommitShapes ==
  { [files |-> <<>>],
    [files |-> << [filename |-> SrcFile, additions |-> 10] >>],
    [files |-> << [filename |-> SrcFile, additions |-> 0] >>],
    [files |-> << [filename |-> TestDirFile, additions |-> 4] >>],
    [files |-> << [filename |-> SrcFile, additions |-> 10],
                  [filename |-> TestDirFile, additions |-> 4] >>],
    [files |-> << [filename |-> SrcFile, additions |-> 10],
                  [filename |-> SrcFile, additions |-> 5] >>] }

ChInit ==
  /\ \/ chCommits = Undefined
     \/ \E list \in SeqsUpTo(CommitShapes, MaxCommits) : chCommits = Array(list)
  /\ chNext \in CommitShapes
  /\ chResult = <<>>
  /\ chRework = 0
  /\ chReworkAfter = 0
  /\ chDone = FALSE
  /\ ChRestIdle

ChCompute ==
  /\ ~chDone
  /\ chResult' = calculateChurnMetrics(chCommits)
  /\ chRework' = churnTotals(chCommits.items).reWorkAdditions
  /\ chReworkAfter' = churnTotals(Append(chCommits.items, chNext)).reWorkAdditions
  /\ chDone' = TRUE
  /\ UNCHANGED <<chCommits, chNext>>
  /\ UNCHANGED chRest

ChNext == ChCompute

SpecChurn == ChInit /\ [][ChNext]_vars

\* C12: for an absent, empty or one-commit list the metrics are
\* churnPercentage 0 and fileChurnCount 0, whatever the commit contains.
C12_SingleCommitNoChurn ==
  (chDone /\ (~chCommits.defined \/ Len(chCommits.items) <= 1)) =>
    chResult = [churnPercentage |-> 0, fileChurnCount |-> 0]

\* one commit that lists a file twice, with additions
C12_Witness ==
  /\ chDone
  /\ chCommits.defined /\ Len(chCommits.items) = 1
  /\ Len(chCommits.items[1].files) = 2
  /\ chCommits.items[1].files[1].filename = chCommits.items[1].files[2].filename

\* the filenames of the commits of a list
SeenFilenames(list) ==
  UNION { { list[i].files[j].filename : j \in 1..Len(list[i].files) } : i \in 1..Len(list) }

\* the further commit has a file that an earlier commit of the list has
Retouches ==
  \E j \in 1..Len(chNext.files) : chNext.files[j].filename \in SeenFilenames(chCommits.items)

\* the lines the further commit adds to files seen before, in an earlier
\* commit or earlier in the commit itself
RetouchedAdditions ==
  sum([j \in 1..Len(chNext.files) |->
         IF \/ chNext.files[j].filename \in SeenFilenames(chCommits.items)
            \/ \E k \in 1..(j - 1) : chNext.files[k].filename = chNext.files[j].filename
         THEN chNext.files[j].additions ELSE 0])

----------------------------------------------------------------------------
(* Claims about the comments of a review *)

\* the body of the review has a character that trimming keeps
BodySaysSomething(review) == \E k \in 1..Len(review.body) : review.body[k] \notin Whitespace

\* the inline comments the API returned for the review
HasInline(review) == review.inlineOk /\ review.inlineComments # <<>>

\* the reviewer has a conversation comment among those the API returned
HasConversation(review) ==
  /\ rrFetched.conversationOk
  /\ \E k \in 1..Len(rrFetched.conversationComments) :
        rrFetched.conversationComments[k].user = review.user

SilentApprovalsOf(reviewer) ==
  { i \in 1..Len(rrResult.reviews) :
      /\ rrResult.reviews[i].reviewer = reviewer
      /\ rrResult.reviews[i].state = "APPROVED"
      /\ ~rrResult.reviews[i].hasComments }

----------------------------------------------------------------------------
(* Quality score of the dashboard: calculateQualityScore (lib/utils.ts).    *)
(* The figures of a developer are integers, avgWorkingHoursToClose may be   *)
(* Null.  A sub-score is kept in thirds of a point, so that every sub-score *)
(* of an integer input is exact; teamAvg is not read by the function.       *)

\* Math.max(0, Math.min(100, x)), in thirds
clamp(x) == Max(0, Min(300, x))

\* 100 * (1 - (dev.avgSrcSize - 100) / 300)
linesScore(dev) == clamp(300 - (dev.avgSrcSize - 100))

\* 100 * (1 - (dev.avgSrcFiles - 4) / 6)
filesScore(dev) == clamp(300 - 50 * (dev.avgSrcFiles - 4))

\* a close time score without the null test: null counts as the number 0
closeTimeScore_nullAsNumber(dev) ==
  clamp(300 - 50 * ((IF dev.avgWorkingHoursToClose = Null THEN 0
                     ELSE dev.avgWorkingHoursToClose) - 2))

\* 100 * (1 - (dev.avgWorkingHoursToClose - 2) / 6), 50 without data
closeTimeScore(dev) ==
  IF dev.avgWorkingHoursToClose # Null
  THEN clamp(300 - 50 * (dev.avgWorkingHoursToClose - 2))
  ELSE 150

\* 100 * (1 - Math.max(0, dev.avgIterations - 1) / 3)
iterationScore(dev) == clamp(300 - 100 * Max(0, dev.avgIterations - 1))

\* a churn score without its Math.max(0, ...)
churnScore_unclamped(dev) == 300 - 6 * dev.churnPct

\* Math.max(0, 100 * (1 - dev.churnPct / 50))
churnScore(dev) == Max(0, 300 - 6 * dev.churnPct)

\* Math.round(sizeScore * 0.35 + closeTimeScore * 0.30 + iterationScore * 0.20
\*            + churnScore * 0.15), sizeScore being (linesScore + filesScore) / 2
calculateQualityScore(dev, teamAvg) ==
  RoundDiv(35 * (linesScore(dev) + filesScore(dev))
           + 2 * (30 * closeTimeScore(dev) + 20 * iterationScore(dev)
                  + 15 * churnScore(dev)),
           600)

\* the authored half of a team summary, as far as a caller fills it
TeamAvgShapes ==
  [avgPrSize : {0, 300}, avgCloseTime : {Null, 4}]

\* the figures of a developer
DevShapes ==
  [avgSrcSize : {0, 100, 101, 250, 400, 1000},
   avgSrcFiles : {0, 4, 5, 7, 10, 30},
   avgIterations : {0, 1, 2, 4, 9},
   avgWorkingHoursToClose : {Null, 0, 2, 3, 8, 40},
   churnPct : {0, 10, 25, 50, 51, 100}]

QsInit ==
  /\ qsDev \in DevShapes
  /\ qsTeamAvg \in TeamAvgShapes
  /\ qsScores = <<>>
  /\ qsDone = FALSE
  /\ QsRestIdle

QsCompute ==
  /\ ~qsDone
  /\ qsScores' = [linesScore |-> linesScore(qsDev),
                  filesScore |-> filesScore(qsDev),
                  closeTimeScore |-> closeTimeScore(qsDev),
                  iterationScore |-> iterationScore(qsDev),
                  churnScore |-> churnScore(qsDev),
                  score |-> calculateQualityScore(qsDev, qsTeamAvg)]
  /\ qsDone' = TRUE
  /\ UNCHANGED <<qsDev, qsTeamAvg>>
  /\ UNCHANGED qsRest

QsNext == QsCompute

SpecQuality == QsInit /\ [][QsNext]_vars

\* C15: for non-negative figures, and a non-negative or absent close time,
\* the score is an integer from 0 to 100 and the size, close time, iteration
\* and churn sub-scores each lie between 0 and 100 (300 thirds).
C15_ScoreWithinBounds ==
  qsDone =>
    /\ qsScores.score \in 0..100
    /\ qsScores.linesScore \in 0..300
    /\ qsScores.filesScore \in 0..300
    /\ (qsScores.linesScore + qsScores.filesScore) \in 0..600
    /\ qsScores.closeTimeScore \in 0..300
    /\ qsScores.iterationScore \in 0..300
    /\ qsScores.churnScore \in 0..300

\* a developer whose every figure is beyond the end of its scale
C15_Witness ==
  /\ qsDone
  /\ qsDev.avgSrcSize > 400 /\ qsDev.avgSrcFiles > 10 /\ qsDev.avgIterations > 4
  /\ qsDev.avgWorkingHoursToClose > 8 /\ qsDev.churnPct > 50
  /\ qsScores.score = 0

----------------------------------------------------------------------------
(* Specification of the weighted average of calculateTeamSummary: rows are  *)
(* drawn, one step applies weightedAvg to them.                             *)

\* reviewer rows, as far as weightedAvg reads them; a figure may be missing
ItemShapes ==
  [avgPrSizeReviewed : {Null, NaN, 0, 7, 10},
   prsReviewedCount : {Null, 0, 1, 3}]

WaInit ==
  /\ waItems \in SeqsUpTo(ItemShapes, MaxItems)
  /\ waResult = <<>>
  /\ waDone = FALSE
  /\ WaRestIdle

WaCompute ==
  /\ ~waDone
  /\ waResult' = weightedAvg(waItems, "avgPrSizeReviewed", "prsReviewedCount")
  /\ waDone' = TRUE
  /\ UNCHANGED waItems
  /\ UNCHANGED waRest

WaNext == WaCompute

SpecWeighted == WaInit /\ [][WaNext]_vars

\* a figure as a number: a missing one counts as 0
Numeric(x) == IF x = Null \/ x = NaN THEN 0 ELSE x

RECURSIVE TotalWeight(_)
TotalWeight(items) ==
  IF items = <<>> THEN 0
  ELSE Numeric(Head(items).prsReviewedCount) + TotalWeight(Tail(items))

RECURSIVE WeightedSum(_)
WeightedSum(items) ==
  IF items = <<>> THEN 0
  ELSE Numeric(Head(items).avgPrSizeReviewed) * Numeric(Head(items).prsReviewedCount)
       + WeightedSum(Tail(items))

\* C16: the weighted average is sum(value * weight) / sum(weight); it is 0,
\* and never NaN, when there is no row or the total weight is zero.
C16_WeightedAverage ==
  waDone =>
    /\ waResult.num # NaN
    /\ waResult.den > 0
    /\ waResult.num * TotalWeight(waItems) = WeightedSum(waItems) * waResult.den
    /\ (waItems = <<>> \/ TotalWeight(waItems) = 0) => waResult.num = 0

\* rows that all have weight zero or none
C16_Witness ==
  /\ waDone
  /\ Len(waItems) = 2
  /\ TotalWeight(waItems) = 0
  /\ waItems[1].avgPrSizeReviewed = 10
  /\ waResult.num = 0

----------------------------------------------------------------------------
(* CSV Emitter: generateCSV.  A text is the sequence of its characters.  A  *)
(* row is the sequence of its [key, value] properties in insertion order; a *)
(* value is null, a non-negative integer or a string.                       *)

JNull == [t |-> "null", n |-> 0, s |-> <<>>]
JNum(n) == [t |-> "number", n |-> n, s |-> <<>>]
JStr(s) == [t |-> "string", n |-> 0, s |-> s]

DigitChars == <<"0", "1", "2", "3", "4", "5", "6", "7", "8", "9">>

\* the decimal digits of a non-negative integer
RECURSIVE digits(_)
digits(n) ==
  IF n < 10 THEN <<DigitChars[n + 1]>>
  ELSE digits(n \div 10) \o <<DigitChars[(n % 10) + 1]>>

\* the escapes of JSON.stringify inside a string
RECURSIVE escape(_)
escape(str) ==
  IF str = <<>> THEN <<>>
  ELSE (IF Head(str) = "\"" THEN <<"\\", "\"">>
        ELSE IF Head(str) = "\\" THEN <<"\\", "\\">>
        ELSE IF Head(str) = "\n" THEN <<"\\", "n">>
        ELSE <<Head(str)>>) \o escape(Tail(str))

\* a stringify that writes the characters of a string as they are
stringify_unescaped(v) ==
  IF v.t = "null" THEN <<"n", "u", "l", "l">>
  ELSE IF v.t = "number" THEN digits(v.n)
  ELSE <<"\"">> \o v.s \o <<"\"">>

\* JSON.stringify of a value
stringify(v) ==
  IF v.t = "null" THEN <<"n", "u", "l", "l">>
  ELSE IF v.t = "number" THEN digits(v.n)
  ELSE <<"\"">> \o escape(v.s) \o <<"\"">>

\* Array#join
RECURSIVE join(_, _)
join(parts, sep) ==
  IF parts = <<>> THEN <<>>
  ELSE IF Len(parts) = 1 THEN parts[1]
  ELSE parts[1] \o sep \o join(Tail(parts), sep)

\* Object.keys(row)
ObjectKeys(row) == [k \in 1..Len(row) |-> row[k].key]

\* row[h] ?? '': the value of property h, '' when it is null or undefined
valueOrEmpty(row, h) ==
  IF \E k \in 1..Len(row) : row[k].key = h /\ row[k].value.t # "null"
  THEN row[CHOOSE k \in 1..Len(row) : row[k].key = h].value
  ELSE JStr(<<>>)

generateCSV(summary) ==
  IF Len(summary) = 0 THEN <<>>
  ELSE LET headers == ObjectKeys(summary[1])
           rows == [i \in 1..Len(summary) |->
                      join([k \in 1..Len(headers) |->
                              stringify(valueOrEmpty(summary[i], headers[k]))],
                           <<",">>)]
       IN join(<<join(headers, <<",">>)>> \o rows, <<"\n">>)

----------------------------------------------------------------------------
(* Specification of the CSV writer: rows with one key set are drawn, one    *)
(* step applies generateCSV.                                                *)

reviewerKey == <<"r", "e", "v", "i", "e", "w", "e", "r">>
medianKey == <<"m", "e", "d", "i", "a", "n">>

\* values of a summary row, and strings that need quoting
ValueShapes ==
  { JNull, JNum(0), JNum(12), JStr(<<>>), JStr(<<"a", ",", "b">>),
    JStr(<<"\"", "\\", "\n">>) }

RowShapes ==
  { << [key |-> reviewerKey, value |-> v], [key |-> medianKey, value |-> w] >> :
      v \in ValueShapes, w \in ValueShapes }

CsvInit ==
  /\ csvSummary \in SeqsUpTo(RowShapes, MaxRows)
  /\ csvOut = <<>>
  /\ csvDone = FALSE
  /\ CsvRestIdle

CsvGenerate ==
  /\ ~csvDone
  /\ csvOut' = generateCSV(csvSummary)
  /\ csvDone' = TRUE
  /\ UNCHANGED csvSummary
  /\ UNCHANGED csvRest

CsvNext == CsvGenerate

SpecCSV == CsvInit /\ [][CsvNext]_vars

----------------------------------------------------------------------------
(* Claims about the CSV writer.  The text is read back the way a consumer   *)
(* of JSON-encoded cells reads it: lines end at a line feed, cells at a     *)
(* comma outside a JSON string.                                             *)

\* the parts of a text between the occurrences of a separator character
RECURSIVE SplitAt(_, _, _, _)
SplitAt(text, sep, cur, acc) ==
  IF text = <<>> THEN Append(acc, cur)
  ELSE IF Head(text) = sep THEN SplitAt(Tail(text), sep, <<>>, Append(acc, cur))
  ELSE SplitAt(Tail(text), sep, Append(cur, Head(text)), acc)

LinesOf(text) == SplitAt(text, "\n", <<>>, <<>>)

\* the cells of a data line: commas inside a JSON string do not separate
RECURSIVE ScanCells(_, _, _, _, _)
ScanCells(text, cur, inString, escaped, acc) ==
  IF text = <<>> THEN Append(acc, cur)
  ELSE LET c == Head(text)
           more == Append(cur, c)
       IN IF inString
          THEN IF escaped THEN ScanCells(Tail(text), more, TRUE, FALSE, acc)
               ELSE IF c = "\\" THEN ScanCells(Tail(text), more, TRUE, TRUE, acc)
               ELSE IF c = "\"" THEN ScanCells(Tail(text), more, FALSE, FALSE, acc)
               ELSE ScanCells(Tail(text), more, TRUE, FALSE, acc)
          ELSE IF c = "," THEN ScanCells(Tail(text), <<>>, FALSE, FALSE, Append(acc, cur))
               ELSE IF c = "\"" THEN ScanCells(Tail(text), more, TRUE, FALSE, acc)
               ELSE ScanCells(Tail(text), more, FALSE, FALSE, acc)

CellsOf(line) == ScanCells(line, <<>>, FALSE, FALSE, <<>>)

\* the characters of the inside of a JSON string
RECURSIVE Unescape(_)
Unescape(str) ==
  IF str = <<>> THEN <<>>
  ELSE IF Head(str) = "\\" /\ Len(str) >= 2
       THEN <<IF str[2] = "n" THEN "\n" ELSE str[2]>> \o Unescape(Tail(Tail(str)))
       ELSE <<Head(str)>> \o Unescape(Tail(str))

DigitValue(c) == CHOOSE d \in 0..9 : DigitChars[d + 1] = c

RECURSIVE NumberOf(_, _)
NumberOf(str, n) ==
  IF str = <<>> THEN n ELSE NumberOf(Tail(str), 10 * n + DigitValue(Head(str)))

IsDigits(str) ==
  /\ str # <<>>
  /\ \A k \in 1..Len(str) : \E d \in 1..10 : DigitChars[d] = str[k]

\* JSON.parse of a cell; a cell that is no JSON value decodes to nothing
NotJSON == [t |-> "invalid", n |-> 0, s |-> <<>>]

Decode(cell) ==
  IF cell = <<"n", "u", "l", "l">> THEN JNull
  ELSE IF Len(cell) >= 2 /\ cell[1] = "\"" /\ cell[Len(cell)] = "\""
       THEN JStr(Unescape(SubSeq(cell, 2, Len(cell) - 1)))
  ELSE IF IsDigits(cell) THEN JNum(NumberOf(cell, 0))
  ELSE NotJSON

\* header line, N data lines, as many cells in each as in the header
CsvShapeHolds ==
  LET lines == LinesOf(csvOut)
      keys == ObjectKeys(csvSummary[1])
  IN /\ Len(lines) = Len(csvSummary) + 1
     /\ SplitAt(lines[1], ",", <<>>, <<>>) = keys
     /\ \A i \in 1..Len(csvSummary) : Len(CellsOf(lines[i + 1])) = Len(keys)

\* what the cell of row i and column k decodes to
DecodedCell(i, k) == Decode(CellsOf(LinesOf(csvOut)[i + 1])[k])

\* C17 as stated: for N >= 1 rows with one key set the text is the header
\* line of the first row's keys and N data lines with as many cells, and
\* every cell JSON-decodes to the value of its row and key.
C17_EveryCellDecodesToItsValue ==
  (csvDone /\ Len(csvSummary) > 0) =>
    /\ CsvShapeHolds
    /\ \A i \in 1..Len(csvSummary) : \A k \in 1..Len(csvSummary[i]) :
         DecodedCell(i, k) = csvSummary[i][k].value

\* C17 amended: the same, except that the cell of a null value decodes to
\* the empty string.
C17_CellsDecodeNullAsEmpty ==
  (csvDone /\ Len(csvSummary) > 0) =>
    /\ CsvShapeHolds
    /\ \A i \in 1..Len(csvSummary) : \A k \in 1..Len(csvSummary[i]) :
         DecodedCell(i, k) =
           IF csvSummary[i][k].value = JNull THEN JStr(<<>>) ELSE csvSummary[i][k].value

\* two rows with a null, a number and strings with a comma and a quote
C17_Witness ==
  /\ csvDone /\ Len(csvSummary) = 2
  /\ csvSummary[1][1].value = JStr(<<"a", ",", "b">>)
  /\ csvSummary[1][2].value = JNull
  /\ csvSummary[2][1].value = JStr(<<"\"", "\\", "\n">>)
  /\ csvSummary[2][2].value = JNum(12)
  /\ Len(LinesOf(csvOut)) = 3

----------------------------------------------------------------------------
(* Specification of a command line run of the collector: main, from the     *)
(* parsing of the arguments to the end of the process.  An argument that is *)
(* not given is the empty string (org, month) or the empty list (repos).    *)
(* mainExit is Null while the process runs.                                 *)

\* config.org and config.repos
configOrg == "thgenergy"
configRepos == <<"fe-redesign", "be-revamp", "API-docs">>

\* parseArgs(): what the command line gives for --org, --repos and --month
ArgShapes ==
  [org : {"", "acme"},
   repos : {<<>>, <<"api">>, <<"api", "web">>},
   month : {"", "2026-01", "January"}]

\* /^\d{4}-\d{2}$/.test(monthArg)
isMonth(monthArg) == monthArg = "2026-01"

\* args.org || config.org
orgOf(args) == IF TruthyStr(args.org) THEN args.org ELSE configOrg

\* args.repos ? args.repos.split(',') : config.repos
reposOf(args) == IF args.repos # <<>> THEN args.repos ELSE configRepos

MainInit ==
  /\ mainArgs \in ArgShapes
  /\ mainPc = "start"
  /\ mainRepos = <<>>
  /\ mainFound = 0
  /\ mainExit = Null
  /\ MainRestIdle

\* lines 801-814: getTargetMonth throws on a malformed month, and the
\* rejection of main reaches main().catch; the two argument checks
MainStart ==
  /\ mainPc = "start"
  /\ IF TruthyStr(mainArgs.month) /\ ~isMonth(mainArgs.month)
     THEN mainPc' = "exited" /\ mainExit' = 1 /\ UNCHANGED mainRepos
     ELSE IF ~TruthyStr(orgOf(mainArgs))
     THEN mainPc' = "exited" /\ mainExit' = 1 /\ UNCHANGED mainRepos
     ELSE IF Len(reposOf(mainArgs)) = 0
     THEN mainPc' = "exited" /\ mainExit' = 1 /\ UNCHANGED mainRepos
     ELSE mainPc' = "fetch" /\ mainRepos' = reposOf(mainArgs) /\ UNCHANGED mainExit
  /\ UNCHANGED <<mainArgs, mainFound>>
  /\ UNCHANGED mainRest

\* one iteration of the loop of lines 826-834: fetchMergedPRs lists n PRs of
\* the repository
MainFetchRepo ==
  /\ mainPc = "fetch"
  /\ mainRepos # <<>>
  /\ \E n \in 0..(MaxFound - mainFound) : mainFound' = mainFound + n
  /\ mainRepos' = Tail(mainRepos)
  /\ UNCHANGED <<mainArgs, mainPc, mainExit>>
  /\ UNCHANGED mainRest

\* the same iteration when fetchMergedPRs throws: the error is logged
MainFetchFails ==
  /\ mainPc = "fetch"
  /\ mainRepos # <<>>
  /\ mainRepos' = Tail(mainRepos)
  /\ UNCHANGED <<mainArgs, mainPc, mainFound, mainExit>>
  /\ UNCHANGED mainRest

\* lines 836-839
MainCheckFound ==
  /\ mainPc = "fetch"
  /\ mainRepos = <<>>
  /\ IF mainFound = 0
     THEN mainPc' = "exited" /\ mainExit' = 0
     ELSE mainPc' = "write" /\ UNCHANGED mainExit
  /\ UNCHANGED <<mainArgs, mainRepos, mainFound>>
  /\ UNCHANGED mainRest

\* lines 843-894: the PRs are processed and the files written; main returns
\* and the process ends with code 0
MainWrites ==
  /\ mainPc = "write"
  /\ mainPc' = "exited"
  /\ mainExit' = 0
  /\ UNCHANGED <<mainArgs, mainRepos, mainFound>>
  /\ UNCHANGED mainRest

\* mkdir or writeFile throws: the rejection of main reaches main().catch
MainWriteFails ==
  /\ mainPc = "write"
  /\ mainPc' = "failed"
  /\ mainExit' = 1
  /\ UNCHANGED <<mainArgs, mainRepos, mainFound>>
  /\ UNCHANGED mainRest

MainNext ==
  \/ MainStart
  \/ MainFetchRepo
  \/ MainFetchFails
  \/ MainCheckFound
  \/ MainWrites
  \/ MainWriteFails

SpecMain == MainInit /\ [][MainNext]_vars

\* a required argument is missing from the command line
ArgumentMissing == mainArgs.org = "" \/ mainArgs.repos = <<>>

\* C18: the run ends with code 1 when --org or --repos is missing from the
\* command line or a fatal error reaches main, and with code 0 on success,
\* the run that finds no merged PR included.
C18_ExitCodes ==
  mainExit # Null =>
    /\ ArgumentMissing => mainExit = 1
    /\ mainPc = "failed" => mainExit = 1
    /\ (~ArgumentMissing /\ mainPc = "exited"
        /\ ~(TruthyStr(mainArgs.month) /\ ~isMonth(mainArgs.month))) => mainExit = 0


----------------------------------------------------------------------------
(* Dashboard: the page keeps the loaded month and the set of PR keys checked *)
(* in the All PRs table; the filtered data is derived from both on every     *)
(* render.  The developer filter is left empty, so devFilteredData is data.  *)

\* `${pr.repo}#${pr.number}`: a repository name holds no '#', so the key is the pair
prKeyOf(pr) == <<pr.repo, pr.number>>

\* computeTeamSummaryFallback(data), src/dashboard/lib/utils.ts
computeTeamSummaryFallback(data) ==
  LET valid == FilterSeq(data.details, LAMBDA p : ~TruthyStr(p.error))
      weightedAvgOf(items, valueField, weightField) ==
        LET value(i) == orDefault(items[i][valueField], 0)
            weight(i) == orDefault(items[i][weightField], 0)
            totalWeight == sum([i \in 1..Len(items) |-> weight(i)])
            weightedSum == sum([i \in 1..Len(items) |-> value(i) * weight(i)])
        IN IF totalWeight > 0 THEN RoundDiv(weightedSum, totalWeight) ELSE 0
      iterations == MapSeq(valid, LAMBDA p : p.iterationCount)
      workingHoursCloseTimes ==
        FilterSeq(MapSeq(valid, LAMBDA p : calculateWorkingHours(p.createdAt, p.mergedAt)),
                  LAMBDA h : h > 0)
      churnPercentages == MapSeq(FilterSeq(valid, LAMBDA p : p.churnPercentage # NaN),
                                 LAMBDA p : p.churnPercentage)
      fileChurnCounts == MapSeq(FilterSeq(valid, LAMBDA p : p.fileChurnCount # NaN),
                                LAMBDA p : p.fileChurnCount)
      commitCounts == MapSeq(valid, LAMBDA p : orDefault(p.commitCount, 1))
      allResponseTimes ==
        FilterSeq(MapSeq(FilterSeq(valid, LAMBDA p : TruthyTime(p.firstResponseAt)),
                         LAMBDA p : calculateWorkingHours(p.createdAt, p.firstResponseAt)),
                  LAMBDA h : h >= 0)
      visits == reviewVisits(valid)
      totalReviews == Len(visits)
      totalApprovals == countIf(visits, LAMBDA v : v.review.state = "APPROVED")
      totalNoCommentApprovals ==
        countIf(visits, LAMBDA v : v.review.state = "APPROVED" /\ ~v.review.hasComments)
      totalInlineComments == sum(MapSeq(visits, LAMBDA v : v.review.inlineCommentCount))
  IN [authored |->
        [totalPRs |-> Len(valid),
         totalDevelopers |-> Len(data.authorSummary),
         avgPrSize |-> avgRounded(MapSeq(valid, LAMBDA p : plus(p.totalAdditions, p.totalDeletions))),
         avgProdLines |-> avgRounded(MapSeq(valid, LAMBDA p : plus(p.prodAdditions, p.prodDeletions))),
         avgTestLines |-> avgRounded(MapSeq(valid, LAMBDA p : plus(p.testAdditions, p.testDeletions))),
         avgCloseTime |-> IF workingHoursCloseTimes # <<>>
                          THEN avgFixed(workingHoursCloseTimes, 100, SlotsPerHour) ELSE Null,
         avgIterations |-> avgFixed(iterations, 100, 1),
         avgChurnPct |-> IF churnPercentages # <<>> THEN avgFixed(churnPercentages, 1, 1) ELSE 0,
         avgFileChurn |-> IF fileChurnCounts # <<>> THEN avgFixed(fileChurnCounts, 10, 1) ELSE 0,
         avgCommitsPerPr |-> avgFixed(commitCounts, 100, 1)],
      reviewed |->
        [totalReviews |-> totalReviews,
         totalReviewers |-> Len(data.summary),
         avgPrSizeReviewed |->
           weightedAvgOf(data.summary, "avgPrSizeReviewed", "prsReviewedCount"),
         avgProdLinesReviewed |->
           weightedAvgOf(data.summary, "avgPrProdLinesReviewed", "prsReviewedCount"),
         avgTestLinesReviewed |->
           weightedAvgOf(data.summary, "avgPrTestLinesReviewed", "prsReviewedCount"),
         medianResponseTime |->
           IF allResponseTimes # <<>> THEN hoursFixed2(median(allResponseTimes)) ELSE Null,
         overallNoCommentPct |->
           IF totalApprovals > 0 THEN RoundDiv(1000 * totalNoCommentApprovals, totalApprovals)
           ELSE 0,
         avgInlineComments |->
           IF totalReviews > 0 THEN RoundDiv(100 * totalInlineComments, totalReviews) ELSE 0,
         avgIterationsPerPr |-> avgFixed(iterations, 100, 1)]]

\* Home.filteredData with no developer excluded
filteredData(data, excludedPRs) ==
  IF excludedPRs = {} THEN data
  ELSE LET filteredDetails ==
             FilterSeq(data.details, LAMBDA pr : prKeyOf(pr) \notin excludedPRs)
           partial == [data EXCEPT !.details = filteredDetails]
       IN [partial EXCEPT !.teamSummary = computeTeamSummaryFallback(partial)]

\* the month file main writes for the PR records prDetails
outputData(prDetails) ==
  LET summary == calculateReviewerSummary(prDetails)
      authorSummary == calculateAuthorSummary(prDetails)
  IN [summary |-> summary,
      authorSummary |-> authorSummary,
      teamSummary |-> calculateTeamSummary(authorSummary, summary, prDetails),
      details |-> prDetails]

\* the page after the month has loaded: nothing is excluded
DashInit ==
  /\ \E prs \in SeqsUpTo(RawPRs, MaxDetails) :
       /\ DistinctPRs(prs)
       /\ \E ks \in [1..Len(prs) -> 1..Len(Cases(0))] :
            dashData = outputData([i \in 1..Len(prs) |-> EnrichedTable[prs[i]][ks[i]]])
  /\ dashExcludedPRs = {}
  /\ dashFiltered = dashData
  /\ DashRestIdle

\* DetailTable.togglePRExclusion(prKey) from the checkbox of a listed row,
\* then the render that recomputes filteredData
DashToggle ==
  /\ \E i \in 1..Len(dashData.details) :
       LET key == prKeyOf(dashData.details[i])
           next == IF key \in dashExcludedPRs THEN dashExcludedPRs \ {key}
                   ELSE dashExcludedPRs \cup {key}
       IN /\ dashExcludedPRs' = next
          /\ dashFiltered' = filteredData(dashData, next)
  /\ UNCHANGED dashData
  /\ UNCHANGED dashRest

\* the "clear all" button shown while something is excluded
DashClearAll ==
  /\ dashExcludedPRs # {}
  /\ dashExcludedPRs' = {}
  /\ dashFiltered' = filteredData(dashData, {})
  /\ UNCHANGED dashData
  /\ UNCHANGED dashRest

DashNext == DashToggle \/ DashClearAll

SpecDash == DashInit /\ [][DashNext]_vars

\* the records of the loaded month whose key is not excluded
KeptDetails ==
  SelectSeq(dashData.details, LAMBDA pr : prKeyOf(pr) \notin dashExcludedPRs)

\* the number of reviews `reviewer` submitted on the non-error PRs of batch
ReviewsBy(batch, reviewer) ==
  Len(SelectSeq(reviewVisits(validPRs(batch)), LAMBDA v : v.review.reviewer = reviewer))

\* the number of non-error PRs of batch written by author
AuthoredBy(batch, author) ==
  Len(SelectSeq(validPRs(batch), LAMBDA pr : pr.author = author))

\* C19: after any sequence of check/uncheck actions, an excluded PR counts in
\* no figure of the filtered data: the authored and the reviewed half of the
\* recomputed team summary are those of the kept PRs, and every reviewer row
\* and author row counts kept PRs only.
C19_ExcludedPRsCountNowhere ==
  dashExcludedPRs # {} =>
    LET kept == KeptDetails
        team == dashFiltered.teamSummary
        ofKept == computeTeamSummaryFallback(outputData(kept))
    IN /\ team.authored.totalPRs = Len(validPRs(kept))
       /\ team.reviewed.totalReviews = Len(reviewVisits(validPRs(kept)))
       /\ team.reviewed.avgPrSizeReviewed = ofKept.reviewed.avgPrSizeReviewed
       /\ \A k \in 1..Len(dashFiltered.summary) :
            LET row == dashFiltered.summary[k]
            IN /\ row.totalReviews <= ReviewsBy(kept, row.reviewer)
               /\ row.prsReviewedCount <= Cardinality(PRsReviewedBy(kept, row.reviewer))
       /\ \A k \in 1..Len(dashFiltered.authorSummary) :
            LET row == dashFiltered.authorSummary[k]
            IN row.prsAuthored <= AuthoredBy(kept, row.author)


----------------------------------------------------------------------------
(* ghApiWithRetry: one call, attempt by attempt.  Each attempt either yields *)
(* parsed output or fails (the command fails, or its output does not parse). *)

\* config.maxRetries and config.retryDelayMs
maxRetries == 3
retryDelayMs == 1000

\* the endpoints called, what a successful attempt parses to, what a failed one throws
Endpoints == {"rate_limit", "repos/o/r/pulls/1/reviews"}
Outputs == {"[]", "[{}]"}
Failures == {"Command failed: gh api", "Unexpected end of JSON input"}

\* a delay that does not grow with the attempt
delayMs_constant(attempt) == retryDelayMs

\* const delayMs = config.retryDelayMs * Math.pow(2, attempt)
delayMs(attempt) == retryDelayMs * (2 ^ attempt)

\* const isLastAttempt = attempt === config.maxRetries - 1
isLastAttempt(attempt) == attempt = maxRetries - 1

\* the call: the loop starts with attempt = 0
GhInit ==
  /\ ghEndpoint \in Endpoints
  /\ ghPaginate \in BOOLEAN
  /\ ghAttempt = 0
  /\ ghPc = IF 0 < maxRetries THEN "try" ELSE "returned"
  /\ ghLog = <<>>
  /\ ghWaits = <<>>
  /\ ghResult = IF 0 < maxRetries THEN "" ELSE "undefined"
  /\ ghThrown = NoError
  /\ GhRestIdle

\* the command succeeds and its output parses: return JSON.parse(stdout)
GhAttemptSucceeds ==
  /\ ghPc = "try"
  /\ \E out \in Outputs :
       /\ ghLog' = Append(ghLog, [ok |-> TRUE, value |-> out])
       /\ ghResult' = out
  /\ ghPc' = "returned"
  /\ UNCHANGED <<ghEndpoint, ghPaginate, ghAttempt, ghWaits, ghThrown>>
  /\ UNCHANGED ghRest

\* the attempt throws: the catch block either rethrows or starts the sleep
GhAttemptFails ==
  /\ ghPc = "try"
  /\ \E error \in Failures :
       /\ ghLog' = Append(ghLog, [ok |-> FALSE, value |-> error])
       /\ IF isLastAttempt(ghAttempt)
          THEN /\ ghThrown' = error
               /\ ghPc' = "thrown"
               /\ UNCHANGED ghWaits
          ELSE /\ ghWaits' = Append(ghWaits, delayMs(ghAttempt))
               /\ ghPc' = "sleep"
               /\ UNCHANGED ghThrown
  /\ UNCHANGED <<ghEndpoint, ghPaginate, ghAttempt, ghResult>>
  /\ UNCHANGED ghRest

\* sleep resolves: attempt++ and the loop condition
GhWakes ==
  /\ ghPc = "sleep"
  /\ ghAttempt' = ghAttempt + 1
  /\ IF ghAttempt + 1 < maxRetries
     THEN ghPc' = "try" /\ UNCHANGED ghResult
     ELSE ghPc' = "returned" /\ ghResult' = "undefined"
  /\ UNCHANGED <<ghEndpoint, ghPaginate, ghLog, ghWaits, ghThrown>>
  /\ UNCHANGED ghRest

GhNext == GhAttemptSucceeds \/ GhAttemptFails \/ GhWakes

SpecRetry == GhInit /\ [][GhNext]_vars

\* the failed attempts so far, as positions of the log
FailedAttempts == {k \in 1..Len(ghLog) : ~ghLog[k].ok}

\* C20: a call makes at most maxRetries attempts; it returns the result of the
\* first successful attempt and attempts nothing after it; the k-th failed
\* attempt (from 0) that is not the last is followed by a wait of
\* retryDelayMs * 2^k; after the last failed attempt the call throws that
\* attempt's error and has not waited for it.
C20_RetryContract ==
  /\ Len(ghLog) <= maxRetries
  /\ \A k \in 1..Len(ghLog) : ghLog[k].ok => k = Len(ghLog)
  /\ (\E k \in 1..Len(ghLog) : ghLog[k].ok) <=> ghPc = "returned"
  /\ ghPc = "returned" => ghResult = ghLog[Len(ghLog)].value
  /\ \A k \in FailedAttempts :
       k # maxRetries => /\ Len(ghWaits) >= k
                         /\ ghWaits[k] = retryDelayMs * (2 ^ (k - 1))
  /\ Len(ghWaits) = Cardinality(FailedAttempts \ {maxRetries})
  /\ (Len(ghLog) = maxRetries /\ ~ghLog[maxRetries].ok) <=> ghPc = "thrown"
  /\ ghPc = "thrown" => ghThrown = ghLog[maxRetries].value

\* two attempts failed, both waits were slept, the third succeeded
C20_Witness ==
  /\ ghPc = "returned"
  /\ Len(ghLog) = maxRetries
  /\ ghWaits = <<retryDelayMs, 2 * retryDelayMs>>
  /\ ghResult = "[{}]"


----------------------------------------------------------------------------
(* Further properties of the working-hours calculator *)

\* the slots of [start, end) that lie in a weekday 10:00-18:00 window
ExposedSlots(start, end) == {t \in start..(end - 1) : InExposedWindow(t)}

\* C21: for every start < end, calculateWorkingHours returns exactly the
\* duration of the part of [start, end] inside the weekday 10:00-18:00
\* windows: every night and weekend hour overlapping the interval is removed
\* exactly once, on the first and last partial days too.
C21_ExactlyTheExposedTime ==
  (whDone /\ whStart < whEnd) => whResult = Cardinality(ExposedSlots(whStart, whEnd))

\* Friday 17:30 to the following Monday 10:30: half an hour on each side
C21_Witness ==
  /\ whDone
  /\ whStart = At(4, 17) + 1
  /\ whEnd = At(7, 10) + 1
  /\ whResult = 2


----------------------------------------------------------------------------
(* Further properties of the churn analyzer *)

\* the additions of the entries whose filename is in a commit of strictly earlier index
ReworkByEarlierCommit(list) ==
  LET es == commitEntries(list, 1)
  IN sum([k \in 1..Len(es) |->
            IF es[k].file.filename \in SeenFilenames(SubSeq(list, 1, es[k].idx - 1))
            THEN es[k].file.additions ELSE 0])

\* the additions of all entries
AllAdditions(list) ==
  LET es == commitEntries(list, 1)
  IN sum([k \in 1..Len(es) |-> es[k].file.additions])

\* C22: for a list of two or more commits, an entry's additions count as
\* re-work if and only if its filename is in a commit of strictly earlier
\* index; totalAdditions is the sum of all additions and churnPercentage is
\* reworkAdditions / totalAdditions * 100 to one decimal, 0 on no additions.
C22_ReworkIsEarlierCommits ==
  (chDone /\ chCommits.defined /\ Len(chCommits.items) >= 2) =>
    LET rework == ReworkByEarlierCommit(chCommits.items)
        total == AllAdditions(chCommits.items)
    IN /\ chRework = rework
       /\ chResult.churnPercentage =
            IF total > 0 THEN RoundDiv(1000 * rework, total) ELSE 0


----------------------------------------------------------------------------
(* Claims about the first activity of a review *)

\* the times of the inline comments processPR holds for a review
InlineTimes(review) ==
  IF review.inlineOk
  THEN {review.inlineComments[k] : k \in 1..Len(review.inlineComments)}
  ELSE {}

\* the times of the conversation comments processPR holds for a reviewer
ConversationTimes(reviewer) ==
  IF rrFetched.conversationOk
  THEN {rrFetched.conversationComments[k].created_at :
          k \in {j \in 1..Len(rrFetched.conversationComments) :
                   rrFetched.conversationComments[j].user = reviewer}}
  ELSE {}

\* C23: for every enriched review, firstActivityAt is the minimum of
\* submittedAt, the createdAt of the review's inline comments and the
\* createdAt of the conversation comments of its reviewer; so it is never
\* later than submittedAt and is submittedAt when the reviewer has no comment.
C23_FirstActivityIsEarliest ==
  rrDone =>
    \A i \in 1..Len(rrResult.reviews) :
       LET raw == rrFetched.reviews[i]
           enriched == rrResult.reviews[i]
           comments == InlineTimes(raw) \cup ConversationTimes(raw.user)
           times == {raw.submitted_at} \cup comments
       IN /\ enriched.submittedAt = raw.submitted_at
          /\ enriched.firstActivityAt \in times
          /\ \A t \in times : enriched.firstActivityAt <= t
          /\ enriched.firstActivityAt <= enriched.submittedAt
          /\ comments = {} => enriched.firstActivityAt = enriched.submittedAt

\* a review whose inline comment came before its submission, and a review of
\* a reviewer with no comment at all
C23_Witness ==
  /\ rrDone
  /\ \E i \in 1..Len(rrResult.reviews) :
       /\ rrResult.reviews[i].firstActivityAt < rrResult.reviews[i].submittedAt
       /\ rrResult.reviews[i].firstActivityAt \in InlineTimes(rrFetched.reviews[i])
  /\ \E i \in 1..Len(rrResult.reviews) :
       /\ ~rrResult.reviews[i].hasComments
       /\ rrResult.reviews[i].firstActivityAt = rrResult.reviews[i].submittedAt


----------------------------------------------------------------------------
(* Claims about the response-time statistics of a reviewer row *)

\* the row of the reviewer summary for the reviewer of an accumulator
RowOf(stats) ==
  LET k == CHOOSE j \in 1..Len(aggReviewer) : aggReviewer[j].reviewer = stats.reviewer
  IN aggReviewer[k]

\* C24: for a reviewer with a non-empty response-time sample of n values the
\* reported median is the element at index floor(n/2), the reported p90 the
\* element at index floor(n*0.9) of the ascending-sorted sample and fastest
\* its minimum; both indices are within 0..n-1 and fastest <= median <= p90.
C24_NearestRankStatistics ==
  aggDone =>
    \A r \in 1..Len(aggReviewerStats) :
       LET sample == aggReviewerStats[r].responseTimes
           n == Len(sample)
           sorted == sortAsc(sample)
           row == RowOf(aggReviewerStats[r])
       IN n > 0 =>
            /\ (n \div 2) \in 0..(n - 1)
            /\ ((n * 9) \div 10) \in 0..(n - 1)
            /\ row.medianResponseHours = hoursFixed2(sorted[(n \div 2) + 1])
            /\ row.p90ResponseHours = hoursFixed2(sorted[((n * 9) \div 10) + 1])
            /\ row.fastestResponseHours = hoursFixed2(sorted[1])
            /\ \A t \in 1..n : sorted[1] <= sample[t]
            /\ row.fastestResponseHours <= row.medianResponseHours
            /\ row.medianResponseHours <= row.p90ResponseHours

\* C27: in a reviewer row medianResponseHours, p90ResponseHours and
\* fastestResponseHours are null if and only if the reviewer's response-time
\* sample is empty; on a non-empty sample each is the two-decimal rendering
\* of its statistic, also when the statistic is 0 working hours.
C27_NullOnlyOnEmptySample ==
  aggDone =>
    \A r \in 1..Len(aggReviewerStats) :
       LET sample == aggReviewerStats[r].responseTimes
           row == RowOf(aggReviewerStats[r])
       IN /\ row.medianResponseHours = Null <=> sample = <<>>
          /\ row.p90ResponseHours = Null <=> sample = <<>>
          /\ row.fastestResponseHours = Null <=> sample = <<>>
          /\ sample # <<>> =>
               /\ row.medianResponseHours = hoursFixed2(median(sample))
               /\ row.p90ResponseHours = hoursFixed2(percentile90(sample))
               /\ row.fastestResponseHours = hoursFixed2(fastest(sample))


----------------------------------------------------------------------------
(* The quality score against its scales, in thirds of a point *)

\* 100 at or below `full`, 0 at or above `none`, linear between, for a
\* scale on which one unit is worth `perUnit` thirds
Scale(x, full, none, perUnit) ==
  IF x <= full THEN 300 ELSE IF x >= none THEN 0 ELSE perUnit * (none - x)

\* C25: the score is round(size*0.35 + closeTime*0.30 + iteration*0.20 +
\* churn*0.15); size is the mean of the lines scale (100 lines to 400) and the
\* files scale (4 files to 10), closeTime the scale from 2 to 8 working hours
\* and exactly 50 without a close time, iteration 100*(1 - max(0, n-1)/3)
\* within 0..100, churn the scale from 0% to 50%; teamAvg changes nothing.
C25_ScoreFormula ==
  qsDone =>
    LET lines == Scale(qsDev.avgSrcSize, 100, 400, 1)
        files == Scale(qsDev.avgSrcFiles, 4, 10, 50)
        closeTime == IF qsDev.avgWorkingHoursToClose = Null THEN 150
                     ELSE Scale(qsDev.avgWorkingHoursToClose, 2, 8, 50)
        iteration == Max(0, Min(300, 300 - 100 * Max(0, qsDev.avgIterations - 1)))
        churn == Scale(qsDev.churnPct, 0, 50, 6)
    IN /\ qsScores.linesScore = lines
       /\ qsScores.filesScore = files
       /\ qsScores.closeTimeScore = closeTime
       /\ qsScores.iterationScore = iteration
       /\ qsScores.churnScore = churn
       /\ 600 * qsScores.score - 300 <= 35 * (lines + files)
                                          + 2 * (30 * closeTime + 20 * iteration + 15 * churn)
       /\ 35 * (lines + files) + 2 * (30 * closeTime + 20 * iteration + 15 * churn)
            < 600 * qsScores.score + 300
       /\ \A teamAvg \in TeamAvgShapes :
            calculateQualityScore(qsDev, teamAvg) = qsScores.score

\* a developer in the middle of every scale, without a close time: 53
C25_Witness ==
  /\ qsDone
  /\ qsDev = [avgSrcSize |-> 250, avgSrcFiles |-> 7, avgIterations |-> 2,
              avgWorkingHoursToClose |-> Null, churnPct |-> 25]
  /\ qsScores.closeTimeScore = 150
  /\ qsScores.score = 53


----------------------------------------------------------------------------
(* The two implementations of the team summary *)

\* the dashboard's team summary of the batch and the two summaries main computed
FallbackOfBatch ==
  computeTeamSummaryFallback([details |-> aggBatch, summary |-> aggReviewer,
                              authorSummary |-> aggAuthor])

\* C26: for the same PR details, reviewer summary and author summary the
\* dashboard's computeTeamSummaryFallback returns the same TeamSummary, field
\* by field, as the collector's calculateTeamSummary.
C26_SameTeamSummary ==
  aggDone =>
    /\ FallbackOfBatch.authored = aggTeam.authored
    /\ FallbackOfBatch.reviewed = aggTeam.reviewed


----------------------------------------------------------------------------
(* Specification of the reviewer CSV main writes: a batch of PR records is   *)
(* drawn, one step computes the reviewer summary and its CSV text.  Of the   *)
(* fixed properties of a row, which are the same on every row, the reviewer  *)
(* and totalReviews are kept; the per-repository counts follow them, as the  *)
(* spread of stats.prsByRepo puts them.                                      *)

\* the characters of the logins and repository names of the catalogue
chars(name) ==
  CASE name = "fe" -> <<"f", "e">>
    [] name = "be" -> <<"b", "e">>
    [] name = "ann" -> <<"a", "n", "n">>
    [] name = "bob" -> <<"b", "o", "b">>
    [] name = "cat" -> <<"c", "a", "t">>
    [] name = "dan" -> <<"d", "a", "n">>

totalReviewsKey == <<"t", "o", "t", "a", "l", "R", "e", "v", "i", "e", "w", "s">>

\* the properties of the object pushed for a reviewer, in insertion order
reviewerProperties(row) ==
  << [key |-> reviewerKey, value |-> JStr(chars(row.reviewer))],
     [key |-> totalReviewsKey, value |-> JNum(row.totalReviews)] >>
  \o [k \in 1..Len(row.prsByRepo) |->
        [key |-> chars(row.prsByRepo[k].repo), value |-> JNum(row.prsByRepo[k].count)]]

SCInit ==
  /\ \E prs \in SeqsUpTo(RawPRs, MaxDetails) :
       /\ DistinctPRs(prs)
       /\ \E ks \in [1..Len(prs) -> 1..Len(Cases(0))] :
            aggBatch = [i \in 1..Len(prs) |-> EnrichedTable[prs[i]][ks[i]]]
  /\ aggReviewerStats = <<>> /\ aggReviewer = <<>>
  /\ aggAuthor = <<>> /\ aggTeam = <<>> /\ aggDone = FALSE
  /\ WHIdle /\ RRIdle /\ RunIdle
  /\ ClIdle /\ ChIdle /\ QsIdle /\ WaIdle /\ CsvIdle /\ MainIdle /\ DashIdle /\ GhIdle
  /\ HomeIdle

\* main: const summary = calculateReviewerSummary(prDetails), then
\* generateCSV(summary) for the reviewer file
SCWrite ==
  /\ ~aggDone
  /\ LET summary == calculateReviewerSummary(aggBatch)
         properties == [i \in 1..Len(summary) |-> reviewerProperties(summary[i])]
     IN /\ aggReviewer' = summary
        /\ csvSummary' = properties
        /\ csvOut' = generateCSV(properties)
  /\ aggDone' = TRUE
  /\ csvDone' = TRUE
  /\ UNCHANGED <<aggBatch, aggReviewerStats, aggAuthor, aggTeam>>
  /\ UNCHANGED <<whVars, rrVars, runVars, clVars, chVars, qsVars, waVars, mainVars,
                 dashVars, ghVars, homeVars>>

SCNext == SCWrite

SpecSummaryCSV == SCInit /\ [][SCNext]_vars

\* the columns of the header line named `key`
ColumnsOf(key) ==
  LET header == SplitAt(LinesOf(csvOut)[1], ",", <<>>, <<>>)
  IN {k \in 1..Len(header) : header[k] = key}

\* C28: every per-repository count attached to a row of the summary appears
\* in the CSV: each repository key present on a row has a column in the
\* header, and the row's count is in that column of its data line.
C28_EveryRepoCountIsWritten ==
  (csvDone /\ Len(aggReviewer) > 0) =>
    \A i \in 1..Len(aggReviewer) : \A r \in 1..Len(aggReviewer[i].prsByRepo) :
       LET entry == aggReviewer[i].prsByRepo[r]
       IN \E k \in ColumnsOf(chars(entry.repo)) :
             /\ k <= Len(CellsOf(LinesOf(csvOut)[i + 1]))
             /\ DecodedCell(i, k) = JNum(entry.count)


----------------------------------------------------------------------------
(* Dashboard Home page, month loading: the effect that runs when the         *)
(* selected month changes starts a fetch of /api/data/<month>; its promise   *)
(* callbacks run whenever the response arrives, whatever is selected then.   *)

\* the months of /api/months; "" is useState's null
Months == {"2026-01", "2026-02", "2026-03"}
NoMonth == ""

\* the fetches in flight
PendingTotal == homePending["2026-01"] + homePending["2026-02"] + homePending["2026-03"]

\* the page after mounting: nothing selected, nothing loaded
HomeInit ==
  /\ homeSelected = NoMonth
  /\ homeData = NoMonth
  /\ homeLoading = FALSE
  /\ homeError = NoError
  /\ homePending = [m \in Months |-> 0]
  /\ HomeRestIdle

\* setSelectedMonth(m) with another month, then the effect of lines 208-230
\* up to the fetch call
SelectMonth ==
  /\ PendingTotal < MaxPending
  /\ \E m \in Months :
       /\ m # homeSelected
       /\ homeSelected' = m
       /\ homePending' = [homePending EXCEPT ![m] = @ + 1]
  /\ homeLoading' = TRUE
  /\ homeError' = NoError
  /\ UNCHANGED homeData
  /\ UNCHANGED homeRest

\* a response arrives and parses: setData(data); setLoading(false)
FetchResolves ==
  /\ \E m \in Months :
       /\ homePending[m] > 0
       /\ homePending' = [homePending EXCEPT ![m] = @ - 1]
       /\ homeData' = m
  /\ homeLoading' = FALSE
  /\ UNCHANGED <<homeSelected, homeError>>
  /\ UNCHANGED homeRest

\* a fetch fails or answers with an error status: setError(...); setLoading(false)
FetchRejects ==
  /\ \E m \in Months :
       /\ homePending[m] > 0
       /\ homePending' = [homePending EXCEPT ![m] = @ - 1]
  /\ homeError' = "Failed to load data for this month"
  /\ homeLoading' = FALSE
  /\ UNCHANGED <<homeSelected, homeData>>
  /\ UNCHANGED homeRest

HomeNext == SelectMonth \/ FetchResolves \/ FetchRejects

SpecHome == HomeInit /\ [][HomeNext]_vars

\* C29: under any interleaving of month selections and fetch completions,
\* whenever loading is false, error is null and data is non-null, data is the
\* response fetched for the selected month, and the fetch of the selected
\* month is not still pending.
C29_ShownDataIsOfSelectedMonth ==
  (~homeLoading /\ homeError = NoError /\ homeData # NoMonth) =>
    /\ homeData = homeSelected
    /\ homePending[homeSelected] = 0


----------------------------------------------------------------------------
(* Conservation of the counts across the three summaries *)

\* the number of reviews on the non-error records of the batch
ReviewsOnNonErrorPRs ==
  sum([i \in 1..Len(aggBatch) |->
         IF aggBatch[i].error = NoError THEN Len(aggBatch[i].reviews) ELSE 0])

\* the number of non-error records of the batch
NonErrorPRs == Cardinality({i \in 1..Len(aggBatch) : aggBatch[i].error = NoError})

\* C30: for every batch the sum of totalReviews over the reviewer rows equals
\* teamSummary.reviewed.totalReviews and the number of reviews on non-error
\* PRs; per reviewer approvals + changesRequested + commentOnlyReviews <=
\* totalReviews and noCommentApprovals <= approvals; the sum of prsAuthored
\* over the author rows equals teamSummary.authored.totalPRs.
C30_CountsAreConserved ==
  aggDone =>
    /\ sum([k \in 1..Len(aggReviewer) |-> aggReviewer[k].totalReviews])
         = aggTeam.reviewed.totalReviews
    /\ aggTeam.reviewed.totalReviews = ReviewsOnNonErrorPRs
    /\ \A k \in 1..Len(aggReviewer) :
         /\ aggReviewer[k].approvals + aggReviewer[k].changesRequested
              + aggReviewer[k].commentOnlyReviews <= aggReviewer[k].totalReviews
         /\ aggReviewer[k].noCommentApprovals <= aggReviewer[k].approvals
    /\ sum([k \in 1..Len(aggAuthor) |-> aggAuthor[k].prsAuthored])
         = aggTeam.authored.totalPRs
    /\ aggTeam.authored.totalPRs = NonErrorPRs

\* a batch with an error record, a dismissed review and an approval with comments
C30_Witness ==
  /\ aggDone
  /\ NonErrorPRs < Len(aggBatch)
  /\ aggTeam.authored.totalPRs >= 2
  /\ \E k \in 1..Len(aggReviewer) :
       aggReviewer[k].approvals + aggReviewer[k].changesRequested
         + aggReviewer[k].commentOnlyReviews < aggReviewer[k].totalReviews
  /\ \E k \in 1..Len(aggReviewer) :
       aggReviewer[k].noCommentApprovals < aggReviewer[k].approvals

====
